---------------------------- MODULE Spec2Model ----------------------------
(***************************************************************************)
(* AISTATElight: time-overlap speaker alignment and text-only diarization. *)
(*                                                                         *)
(* Strings that the code takes apart or builds (lines of a transcript,     *)
(* rendered labels) are sequences of one-character strings.  Opaque        *)
(* strings (a recognized text, an engine's speaker id) are TLA+ strings.   *)
(* Times are integers: the code only compares, takes min/max and subtracts.*)
(***************************************************************************)
EXTENDS Integers, Sequences, FiniteSets, TLC

VARIABLES
    \* ---- time alignment (assign_speakers_by_time, legacy inline loop)
    whisper_segments,   \* sequence of <<ws, we, text>>
    speaker_segments,   \* sequence of <<ss, se, spk>>
    combined,           \* result of assign_speakers_by_time
    out_lines,          \* lines of diarize_voice_whisper_pyannote
    align_pc,           \* "input" | "assigned" | "legacy"
    \* ---- text-only diarization
    text,               \* the input text, a sequence of characters
    num_speakers,       \* num_speakers / max_speakers / speakers of the call
    method,             \* the keywords the method string of the call contains
    result_lines,       \* the list a diarize_* function returned
    simple_text,        \* the "text" of diarize_text_simple's result
    tried,              \* auto: candidate k -> what clustering and scoring it gave
    n_clusters,         \* n_clusters of the (last) KMeans whose labels are used
    labels,             \* the labels that KMeans returned
    raised,             \* the call ended in an exception
    encoded,            \* the call invoked model.encode
    text_pc,            \* "input" | "alternating" | "fixed" | "auto" | "simple"
    \* ---- the text diarization handler of the application (on_diarize_clicked)
    HAS_NLP_LIBS,       \* the embedding libraries could be imported
    emb_model,          \* app.emb_model: "None" | "loaded"
    method_code,        \* the method of the last click
    output_text,        \* the content of the output pane
    messagebox,         \* the dialog the last click showed, NoDialog if none
    \* ---- segment lines (ui/segments.py)
    line_pieces,        \* the pieces the input line is put together from
    segment,            \* parse_segment_line(line): a Segment or None
    new_line,           \* build_new_line() of the dialog opened on segment
    reparsed,           \* parse_segment_line(new_line)
    seg_pc,             \* "input" | "parsed" | "built" | "reparsed"
    \* ---- one timestamp (_parse_time_to_seconds)
    ts_pieces,          \* the pieces the timestamp string is put together from
    seconds,            \* _parse_time_to_seconds(s): <<value>> or None
    ts_pc,              \* "input" | "parsed"
    \* ---- rendered lines of the voice diarization
    rendered,           \* the lines a voice diarization wrote
    rendered_from,      \* the (speaker, start, end, text) each line was written for
    parsed_lines,       \* parse_segment_line of each rendered line
    render_pc,          \* "input" | "legacy" | "voice" | "legacy_parsed" | "voice_parsed"
    \* ---- one call of diarize_audio_with_pyannote
    tmpdir_exists,      \* the directory that mkdtemp created is on the disk
    mkdtemp_calls,      \* calls of tempfile.mkdtemp in this call
    ffmpeg_runs,        \* conversions started in this call
    ffmpeg_proc,        \* <<proc>> of subprocess.run, None before it returned
    pipeline_input,     \* the file the pipeline was called on, "none" if not called
    py_segments,        \* <<the list returned>>, None if none was returned
    py_raised,          \* <<the exception raised>>, None if none was raised
    py_pc,              \* "idle" | "created" | "converted" | "returned" | "raised" | "crashed"
    \* ---- one call of diarize_voice_whisper_pyannote_safe
    worker_stdout,      \* the pieces the worker printed on stdout
    worker_exit,        \* <<how the worker ended>>, None before the call
    safe_result,        \* <<the dict returned>>, None before the call
    safe_pc,            \* "input" | "returned"
    \* ---- the speaker names panel (SpeakerNamesPanel)
    left,               \* the text of the left pane
    right,              \* the text of the right pane
    edit_fields,        \* _edit_fields in form order: [spk, new] per speaker
    applied,            \* <<[left, right, mapping] of the last apply>>, None before it
    names_pc,           \* "edit" | "applied"
    \* ---- the audio handlers of DiarizationApp (AIstateLight.py)
    HAS_WHISPER,        \* the import of whisper succeeded
    HAS_PYANNOTE,       \* the import of pyannote.audio succeeded
    audio_path,         \* <<the file chosen>>, None before
    whisper_model_var,  \* the model name selected in the combobox
    whisper_model,      \* <<the name the loaded model was loaded from>>, None for no model
    current_whisper_model_name, \* <<name>>, None
    whisper_loads,      \* calls of whisper.load_model that returned a model
    pyannote_pipeline,  \* <<pipeline>>, None before it is loaded
    pyannote_token_var, \* the token typed in the settings, "" for none
    hf_token_env,       \* os.environ HF_TOKEN: <<token>>, None
    voice_trace         \* the clicks and selections so far: [event, loads] each

align_vars == <<whisper_segments, speaker_segments, combined, out_lines, align_pc>>

text_vars == <<text, num_speakers, method, result_lines, simple_text, tried,
               n_clusters, labels, raised, encoded, text_pc>>

app_vars == <<HAS_NLP_LIBS, emb_model, method_code, output_text, messagebox>>

codec_vars == <<line_pieces, segment, new_line, reparsed, seg_pc,
                ts_pieces, seconds, ts_pc>>

render_vars == <<rendered, rendered_from, parsed_lines, render_pc>>

pyannote_vars == <<tmpdir_exists, mkdtemp_calls, ffmpeg_runs, ffmpeg_proc,
                   pipeline_input, py_segments, py_raised, py_pc>>

worker_vars == <<worker_stdout, worker_exit, safe_result, safe_pc>>

names_vars == <<left, right, edit_fields, applied, names_pc>>

voice_vars == <<HAS_WHISPER, HAS_PYANNOTE, audio_path, whisper_model_var, whisper_model, current_whisper_model_name, whisper_loads, pyannote_pipeline, pyannote_token_var, hf_token_env, voice_trace>>

\* the variables of the parts that were added to the first five
more_vars == <<pyannote_vars, worker_vars, names_vars, voice_vars>>

\* the variables of the first five parts
base_vars == <<align_vars, text_vars, app_vars, codec_vars, render_vars>>

\* what the actions of one added part leave alone
besides_pyannote == <<base_vars, worker_vars, names_vars, voice_vars>>
besides_worker == <<base_vars, pyannote_vars, names_vars, voice_vars>>
besides_names == <<base_vars, pyannote_vars, worker_vars, voice_vars>>
besides_voice == <<align_vars, codec_vars, render_vars, pyannote_vars, worker_vars, names_vars>>

vars == <<whisper_segments, speaker_segments, combined, out_lines, align_pc,
          text, num_speakers, method, result_lines, simple_text, tried,
          n_clusters, labels, raised, encoded, text_pc,
          HAS_NLP_LIBS, emb_model, method_code, output_text, messagebox,
          line_pieces, segment, new_line, reparsed, seg_pc,
          ts_pieces, seconds, ts_pc,
          rendered, rendered_from, parsed_lines, render_pc,
          tmpdir_exists, mkdtemp_calls, ffmpeg_runs, ffmpeg_proc,
          pipeline_input, py_segments, py_raised, py_pc,
          worker_stdout, worker_exit, safe_result, safe_pc,
          left, right, edit_fields, applied, names_pc,
          HAS_WHISPER, HAS_PYANNOTE, audio_path, whisper_model_var, whisper_model, current_whisper_model_name, whisper_loads, pyannote_pipeline, pyannote_token_var, hf_token_env, voice_trace>>

----------------------------------------------------------------------------
\* Bounds of the model

\* times are drawn from 0..MaxTime
MaxTime == 2
\* a call gets at most MaxItems text segments and speaker turns together
MaxItems == 3

\* an input text has at most MaxTextLen characters
MaxTextLen == 6
\* the speaker counts of a call are drawn from 1..MaxSpeakers
MaxSpeakers == 3
\* silhouette scores are drawn from 0..MaxScore
MaxScore == 2
\* a text with speaker tags is put together from at most MaxTextPieces pieces
MaxTextPieces == 4
\* a segment line is put together from at most MaxLinePieces pieces
MaxLinePieces == 3
\* a timestamp is put together from at most MaxTsPieces pieces
MaxTsPieces == 7

Times == 0..MaxTime
Texts == {"hi"}
Speakers == {"S1", "S2"}

Max(a, b) == IF a >= b THEN a ELSE b
Min(a, b) == IF a <= b THEN a ELSE b

----------------------------------------------------------------------------
\* assign_speakers_by_time (AIstateLight.py)

\* None is <<>>, a speaker id spk is <<spk>>
None == <<>>

\* the overlap of [ws, we] and [ss, se], lines 458-460
Overlap(ws, we, ss, se) ==
    LET overlap_start == Max(ws, ss)
        overlap_end == Min(we, se)
    IN  Max(0, overlap_end - overlap_start)

\* (mutant) a turn replaces the best one on an equal overlap too
TurnWins_LastWins(overlap, best_overlap) == overlap >= best_overlap

\* line 461: a turn replaces the best one only on a strictly greater overlap
TurnWins(overlap, best_overlap) == overlap > best_overlap

\* the inner loop, lines 457-463, from the state (best_speaker, best_overlap)
RECURSIVE ScanTurns(_, _, _, _, _)
ScanTurns(ws, we, turns, best_speaker, best_overlap) ==
    IF turns = <<>> THEN best_speaker
    ELSE LET t == Head(turns)
             overlap == Overlap(ws, we, t[1], t[2])
         IN  IF TurnWins(overlap, best_overlap)
             THEN ScanTurns(ws, we, Tail(turns), <<t[3]>>, overlap)
             ELSE ScanTurns(ws, we, Tail(turns), best_speaker, best_overlap)

\* (mutant) the tuple is built with start and end in each other's place
AssignOne_SwapsBounds(seg, turns) ==
    LET best_speaker == ScanTurns(seg[1], seg[2], turns, None, 0)
    IN  <<IF best_speaker = None THEN "UNKNOWN" ELSE best_speaker[1],
          seg[2], seg[1], seg[3]>>

\* (mutant) a segment that no turn overlaps gets the speaker of the first turn
AssignOne_FirstTurnForUnknown(seg, turns) ==
    LET best_speaker == ScanTurns(seg[1], seg[2], turns, None, 0)
    IN  <<IF best_speaker = None
          THEN (IF turns = <<>> THEN "UNKNOWN" ELSE turns[1][3])
          ELSE best_speaker[1],
          seg[1], seg[2], seg[3]>>

\* lines 454-468: the tuple appended for one text segment
AssignOne(seg, turns) ==
    LET best_speaker == ScanTurns(seg[1], seg[2], turns, None, 0)
    IN  <<IF best_speaker = None THEN "UNKNOWN" ELSE best_speaker[1],
          seg[1], seg[2], seg[3]>>

\* the outer loop, lines 451-470
RECURSIVE assign_speakers_by_time(_, _)
assign_speakers_by_time(wsegs, turns) ==
    IF wsegs = <<>> THEN <<>>
    ELSE <<AssignOne(Head(wsegs), turns)>>
         \o assign_speakers_by_time(Tail(wsegs), turns)

----------------------------------------------------------------------------
\* diarize_voice_whisper_pyannote (legacy_adapter.py): the inline alignment

\* (seg.get("text") or "").strip(), line 306, on the opaque texts
StripText(t) == IF t \in {"", " "} THEN "" ELSE t

\* overlap(a0, a1, b0, b1), lines 299-300
overlap(a0, a1, b0, b1) == Max(0, Min(a1, b1) - Max(a0, b0))

\* (mutant) a turn replaces the best one on an equal overlap too
LegacyTurnWins_NotStrict(ov, best_ov) == ov >= best_ov

\* line 314: a turn replaces the best one only on a strictly greater overlap
LegacyTurnWins(ov, best_ov) == ov > best_ov

\* the inner loop, lines 312-316, from the state (best_spk, best_ov)
RECURSIVE LegacyScanTurns(_, _, _, _, _)
LegacyScanTurns(s0, s1, turns, best_spk, best_ov) ==
    IF turns = <<>> THEN best_spk
    ELSE LET t == Head(turns)
             ov == overlap(s0, s1, t[1], t[2])
         IN  IF LegacyTurnWins(ov, best_ov)
             THEN LegacyScanTurns(s0, s1, Tail(turns), t[3], ov)
             ELSE LegacyScanTurns(s0, s1, Tail(turns), best_spk, best_ov)

\* lines 310-318: the fields of the line written for one segment
LegacyLine(seg, turns) ==
    [s0 |-> seg[1], s1 |-> seg[2],
     best_spk |-> LegacyScanTurns(seg[1], seg[2], turns, "UNKNOWN", 0),
     txt |-> StripText(seg[3])]

\* the loop over the segments, lines 302-318: a segment whose text is empty
\* after stripping writes no line
RECURSIVE LegacyOutLines(_, _)
LegacyOutLines(segments, turns) ==
    IF segments = <<>> THEN <<>>
    ELSE (IF StripText(Head(segments)[3]) = ""
          THEN <<>>
          ELSE <<LegacyLine(Head(segments), turns)>>)
         \o LegacyOutLines(Tail(segments), turns)

----------------------------------------------------------------------------
\* Python's string operations, on sequences of characters

TextChars == {"a", " ", "\n"}

\* str.isspace() of one character
IsSpace(c) == c \in {" ", "\n"}

RECURSIVE lstrip(_)
lstrip(s) == IF s # <<>> /\ IsSpace(Head(s)) THEN lstrip(Tail(s)) ELSE s

RECURSIVE rstrip(_)
rstrip(s) ==
    IF s # <<>> /\ IsSpace(s[Len(s)]) THEN rstrip(SubSeq(s, 1, Len(s) - 1)) ELSE s

\* s.strip()
strip(s) == rstrip(lstrip(s))

\* s.rstrip("\n")
RECURSIVE rstrip_newline(_)
rstrip_newline(s) ==
    IF s # <<>> /\ s[Len(s)] = "\n"
    THEN rstrip_newline(SubSeq(s, 1, Len(s) - 1))
    ELSE s

\* s.splitlines(): the pieces between line breaks, no piece after a final one
RECURSIVE splitlines(_)
splitlines(s) ==
    IF s = <<>> THEN <<>>
    ELSE IF \E i \in 1..Len(s) : s[i] = "\n"
         THEN LET i == CHOOSE i \in 1..Len(s) :
                          s[i] = "\n" /\ \A j \in 1..(i - 1) : s[j] # "\n"
              IN  <<SubSeq(s, 1, i - 1)>> \o splitlines(SubSeq(s, i + 1, Len(s)))
         ELSE <<s>>

\* "\n".join(parts)
RECURSIVE join_newline(_)
join_newline(parts) ==
    IF parts = <<>> THEN <<>>
    ELSE IF Len(parts) = 1 THEN Head(parts)
         ELSE Head(parts) \o <<"\n">> \o join_newline(Tail(parts))

\* str(n) of a natural number
RECURSIVE IntToStr(_)
IntToStr(n) ==
    LET digit == <<"0", "1", "2", "3", "4", "5", "6", "7", "8", "9">>[(n % 10) + 1]
    IN  IF n < 10 THEN <<digit>> ELSE IntToStr(n \div 10) \o <<digit>>

----------------------------------------------------------------------------
\* diarize_alternating (AIstateLight.py)

\* f"[SPK{speaker_idx}] ", the label of line 178 with its space
SpkTag(speaker_idx) == <<"[", "S", "P", "K">> \o IntToStr(speaker_idx) \o <<"]", " ">>

\* (mutant) the index grows without returning to 1
NextSpeakerIdx_NoCycle(speaker_idx, n) == speaker_idx + 1

\* line 177
NextSpeakerIdx(speaker_idx, n) == (speaker_idx % n) + 1

\* the loop of lines 171-178 from speaker_idx
RECURSIVE AlternatingLoop(_, _, _)
AlternatingLoop(lines, n, speaker_idx) ==
    IF lines = <<>> THEN <<>>
    ELSE LET raw == rstrip_newline(Head(lines))
         IN  IF strip(raw) = <<>>
             THEN << <<>> >> \o AlternatingLoop(Tail(lines), n, speaker_idx)
             ELSE LET idx == NextSpeakerIdx(speaker_idx, n)
                  IN  <<SpkTag(idx) \o raw>> \o AlternatingLoop(Tail(lines), n, idx)

\* (mutant) blank lines are left out of the result
diarize_alternating_DropsBlank(lines, n) ==
    AlternatingLoop(SelectSeq(lines, LAMBDA l : strip(l) # <<>>), n, 0)

diarize_alternating(lines, n) == AlternatingLoop(lines, n, 0)

----------------------------------------------------------------------------
\* diarize_with_embeddings_fixed, diarize_with_embeddings_auto (AIstateLight.py)

\* line_indices, lines 213-218 and 247-252: the indices of the non-empty lines
LineIndices(lines) ==
    LET keep == {i \in 1..Len(lines) : strip(lines[i]) # <<>>}
        RECURSIVE asc(_, _)
        asc(i, acc) == IF i > Len(lines) THEN acc
                       ELSE asc(i + 1, IF i \in keep THEN Append(acc, i) ELSE acc)
    IN  asc(1, <<>>)

\* KMeans(n_clusters = k).fit_predict on n points returns labels for
\* 1 <= k <= n and raises otherwise
KMeansAccepts(k, n) == 1 <= k /\ k <= n

\* what fit_predict may return: one label of 0..k-1 per point
Labelings(k, n) == [1..n -> 0..(k - 1)]

\* (mutant) the requested count is passed on as it is
FixedClusterCount_NoClamp(n, n_speakers) == n_speakers

\* lines 223-224 and 227: n_clusters for n non-empty lines
FixedClusterCount(n, n_speakers) ==
    IF n < n_speakers THEN Max(1, n) ELSE n_speakers

\* (mutant) the cluster index itself is used as the speaker number
SpkIds_ByClusterIndex(labs) == [j \in 1..Len(labs) |-> labs[j] + 1]

\* (mutant) every line gets a speaker number of its own
SpkIds_NumbersEveryLine(labs) == [j \in 1..Len(labs) |-> j]

\* the spk_id of each non-empty line, lines 231-239 and 286-294:
\* cluster_to_spk numbers the clusters as the loop meets them
SpkIds(labs) ==
    LET RECURSIVE loop(_, _, _, _)
        loop(j, cluster_to_spk, next_spk_id, acc) ==
            IF j > Len(labs) THEN acc
            ELSE LET cluster == labs[j]
                     seen == cluster \in DOMAIN cluster_to_spk
                     map == IF seen THEN cluster_to_spk
                            ELSE [c \in DOMAIN cluster_to_spk \cup {cluster} |->
                                    IF c = cluster THEN next_spk_id
                                    ELSE cluster_to_spk[c]]
                 IN  loop(j + 1, map,
                          IF seen THEN next_spk_id ELSE next_spk_id + 1,
                          Append(acc, map[cluster]))
    IN  loop(1, [c \in {} |-> 0], 1, <<>>)

\* result, lines 230-242 and 285-297: the non-empty lines get their label
LabelledLines(lines, labs) ==
    LET line_indices == LineIndices(lines)
        spk == SpkIds(labs)
    IN  [idx \in 1..Len(lines) |->
            IF \E j \in 1..Len(line_indices) : line_indices[j] = idx
            THEN LET j == CHOOSE j \in 1..Len(line_indices) : line_indices[j] = idx
                 IN  SpkTag(spk[j]) \o rstrip_newline(lines[idx])
            ELSE lines[idx]]

\* what clustering and scoring one candidate k gives: an exception of KMeans,
\* an exception of silhouette_score, or a score
Outcomes ==
    {[kind |-> "kmeans_raised", score |-> 0], [kind |-> "silhouette_raised", score |-> 0]}
    \cup {[kind |-> "scored", score |-> sc] : sc \in 0..MaxScore}
IsScore(o) == o.kind = "scored"

\* line 263: best_score = -1.0, below every silhouette score of a partition
InitialBestScore == -1

\* (mutant) a candidate replaces the best one on an equal score too
ScoreWins_LastWins(score, best_score) == score >= best_score

\* line 271
ScoreWins(score, best_score) == score > best_score

\* the search of lines 262-275 over k = from..max_k: best_k, None as 0
RECURSIVE SearchBestK(_, _, _, _, _)
SearchBestK(k, max_k, outcome, best_k, best_score) ==
    IF k > max_k THEN best_k
    ELSE IF IsScore(outcome[k]) /\ ScoreWins(outcome[k].score, best_score)
         THEN SearchBestK(k + 1, max_k, outcome, k, outcome[k].score)
         ELSE SearchBestK(k + 1, max_k, outcome, best_k, best_score)

\* (mutant) the fallback of line 278 is the largest candidate
AutoFinalK_FallbackMaxK(n, max_speakers, outcome) ==
    LET max_k == Min(max_speakers, n)
        best_k == SearchBestK(2, max_k, outcome, 0, InitialBestScore)
    IN  IF best_k = 0 THEN Max(max_k, 2) ELSE best_k

\* lines 264-280: the k of the final clustering, n >= 2 non-empty lines
AutoFinalK(n, max_speakers, outcome) ==
    LET max_k == Min(max_speakers, n)
        best_k == SearchBestK(2, max_k, outcome, 0, InitialBestScore)
    IN  IF best_k = 0 THEN (IF n < 2 THEN 1 ELSE 2) ELSE best_k

----------------------------------------------------------------------------
\* diarize_text_simple (legacy_adapter.py)

\* the substring tests on method.lower(), lines 155-219
IsKeep(m) == "keep" \in m \/ "zachow" \in m
IsSentence(m) == "sentence" \in m \/ "zdani" \in m
\* ("lacz" stands for the Polish keyword of line 178, spelled with diacritics)
IsMerge(m) == "merge" \in m \/ "lacz" \in m
IsAlternate(m) == "naprzem" \in m \/ "alternate" \in m
IsBlock(m) == "blok" \in m \/ "block" \in m
IsParagraph(m) == "paragraph" \in m \/ "akapit" \in m

\* the methods of the calls: none holds keep, sentence or merge
Methods == {{"alternate"}, {"block"}, {"paragraph"}, {}}

\* the methods of the calls under the keep policy
KeepMethods == {{"keep"}, {"zachow", "alternate"}}

\* (mutant) the lines are trimmed and the blank ones kept
SimpleLines_KeepsBlank(raw) ==
    LET ls == splitlines(raw) IN [i \in 1..Len(ls) |-> strip(ls[i])]

\* line 143: [l.strip() for l in raw.splitlines() if l.strip()]
SimpleLines(raw) ==
    LET ls == splitlines(raw)
        trimmed == [i \in 1..Len(ls) |-> strip(ls[i])]
    IN  SelectSeq(trimmed, LAMBDA l : l # <<>>)

\* label(i), lines 150-152
label(i, speakers) ==
    <<"S", "P", "K">> \o IntToStr((i % Max(1, speakers)) + 1)

\* f"{lab}: {u}"
SimpleLine(lab, u) == lab \o <<":", " ">> \o u

\* lines 195-196 and 220-221: label(i) for the i-th unit, i from 0
SimpleAlternate(units, speakers) ==
    [i \in 1..Len(units) |-> SimpleLine(label(i - 1, speakers), units[i])]

\* (mutant) the speaker advances one unit late
SimpleBlock_LateAdvance(units, speakers) ==
    LET block == Max(1, Len(units) \div Max(1, speakers))
        RECURSIVE loop(_, _, _, _)
        loop(i, spk, count, out) ==
            IF i > Len(units) THEN out
            ELSE LET line == SimpleLine(<<"S", "P", "K">> \o IntToStr(spk), units[i])
                 IN  IF count + 1 > block /\ spk < speakers
                     THEN loop(i + 1, spk + 1, 0, Append(out, line))
                     ELSE loop(i + 1, spk, count + 1, Append(out, line))
    IN  loop(1, 1, 0, <<>>)

\* lines 199-207
SimpleBlock(units, speakers) ==
    LET block == Max(1, Len(units) \div Max(1, speakers))
        RECURSIVE loop(_, _, _, _)
        loop(i, spk, count, out) ==
            IF i > Len(units) THEN out
            ELSE LET line == SimpleLine(<<"S", "P", "K">> \o IntToStr(spk), units[i])
                 IN  IF count + 1 >= block /\ spk < speakers
                     THEN loop(i + 1, spk + 1, 0, Append(out, line))
                     ELSE loop(i + 1, spk, count + 1, Append(out, line))
    IN  loop(1, 1, 0, <<>>)

\* lines 210-217
SimpleParagraph(units, speakers) ==
    LET RECURSIVE loop(_, _, _)
        loop(i, spk, out) ==
            IF i >= Len(units) THEN out
            ELSE LET chunk == SubSeq(units, i + 1, Min(i + 2, Len(units)))
                     lines == [j \in 1..Len(chunk) |->
                                 SimpleLine(<<"S", "P", "K">> \o IntToStr(spk), chunk[j])]
                 IN  loop(i + 2, (spk % Max(1, speakers)) + 1, out \o lines)
    IN  loop(0, 1, <<>>)

\* str.lower() of one character, on the letters of the tag words
Lower(c) ==
    LET lower == [S |-> "s", P |-> "p", K |-> "k", E |-> "e", A |-> "a", R |-> "r"]
    IN  IF c \in DOMAIN lower THEN lower[c] ELSE c

\* \d of one character
IsDigit(c) == c \in {"0", "1", "2", "3", "4", "5", "6", "7", "8", "9"}

\* s starts with word, letter case ignored (re.I)
StartsWithWord(s, word) ==
    /\ Len(s) >= Len(word)
    /\ \A i \in 1..Len(word) : Lower(s[i]) = word[i]

\* the words of the tag pattern of line 158, in the order they are tried
TagWords == << <<"s", "p", "k">>, <<"s", "p", "e", "a", "k", "e", "r">> >>

\* re.match(r"^(spk|speaker)\s*\d+[:\-]\s*", ln, re.I), line 158: the word,
\* any whitespace, one digit or more, then ':' or '-'
MatchesSpeakerTag(ln) ==
    \E w \in 1..Len(TagWords) :
        /\ StartsWithWord(ln, TagWords[w])
        /\ LET after_word == lstrip(SubSeq(ln, Len(TagWords[w]) + 1, Len(ln)))
               RECURSIVE digits(_)
               digits(s) == IF s # <<>> /\ IsDigit(Head(s)) THEN digits(Tail(s)) ELSE s
               after_digits == digits(after_word)
           IN  /\ after_word # <<>> /\ IsDigit(Head(after_word))
               /\ after_digits # <<>> /\ Head(after_digits) \in {":", "-"}

\* the loop of lines 156-161: a tagged line is kept, another one gets
\* label(len(out))
RECURSIVE SimpleKeepLoop(_, _, _)
SimpleKeepLoop(lns, speakers, out) ==
    IF lns = <<>> THEN out
    ELSE LET ln == Head(lns)
         IN  IF MatchesSpeakerTag(ln)
             THEN SimpleKeepLoop(Tail(lns), speakers, Append(out, ln))
             ELSE SimpleKeepLoop(Tail(lns), speakers,
                                 Append(out, SimpleLine(label(Len(out), speakers), ln)))

SimpleKeep(lns, speakers) == SimpleKeepLoop(lns, speakers, <<>>)

\* split_sentences, lines 165-167: the line is cut at the whitespace that
\* follows '.', '?' or '!'; the parts are trimmed and the empty ones dropped
RECURSIVE SentenceParts(_)
SentenceParts(s) ==
    LET IsCut(i) == s[i] \in {".", "?", "!"} /\ i < Len(s) /\ IsSpace(s[i + 1])
    IN  IF \E i \in 1..Len(s) : IsCut(i)
        THEN LET i == CHOOSE i \in 1..Len(s) : IsCut(i) /\ \A j \in 1..(i - 1) : ~IsCut(j)
             IN  <<SubSeq(s, 1, i)>> \o SentenceParts(lstrip(SubSeq(s, i + 1, Len(s))))
        ELSE <<s>>

split_sentences(text_line) ==
    LET parts == SentenceParts(strip(text_line))
        trimmed == [i \in 1..Len(parts) |-> strip(parts[i])]
    IN  SelectSeq(trimmed, LAMBDA p : p # <<>>)

\* lines 170-175: the units are the lines, or the sentences of the lines
RECURSIVE SentenceUnits(_)
SentenceUnits(lines) ==
    IF lines = <<>> THEN <<>>
    ELSE split_sentences(Head(lines)) \o SentenceUnits(Tail(lines))

SimpleUnits(lines, m) == IF IsSentence(m) THEN SentenceUnits(lines) ELSE lines

\* line 182: a buffer shorter than this takes the next unit
MergeThreshold == 40

\* lines 179-189: the units are added to a buffer while the buffer is short
SimpleMerge(units) ==
    LET RECURSIVE loop(_, _, _)
        loop(i, buf, merged) ==
            IF i > Len(units)
            THEN IF buf # <<>> THEN Append(merged, buf) ELSE merged
            ELSE IF Len(buf) < MergeThreshold
                 THEN loop(i + 1, strip(buf \o <<" ">> \o units[i]), merged)
                 ELSE loop(i + 1, units[i], Append(merged, buf))
    IN  loop(1, <<>>, <<>>)

\* the units that get a label, lines 169-190
MergedUnits(lines, m) ==
    IF IsMerge(m) THEN SimpleMerge(SimpleUnits(lines, m)) ELSE SimpleUnits(lines, m)

\* the "text" of the result, lines 139-224
diarize_text_simple(txt, speakers, m) ==
    LET raw == strip(txt)
        lines == SimpleLines(raw)
        units == MergedUnits(lines, m)
        out == IF IsKeep(m) THEN SimpleKeep(lines, speakers)
               ELSE IF IsAlternate(m) THEN SimpleAlternate(units, speakers)
               ELSE IF IsBlock(m) THEN SimpleBlock(units, speakers)
               ELSE IF IsParagraph(m) THEN SimpleParagraph(units, speakers)
               ELSE SimpleAlternate(units, speakers)
    IN  IF raw = <<>> THEN <<>>
        ELSE IF lines = <<>> THEN <<>>
        ELSE join_newline(out)

----------------------------------------------------------------------------
\* _parse_time_to_seconds (ui/segments.py)
\*
\* A number of seconds is [whole, frac]: the digits of the whole seconds
\* without leading zeros and the digits of the fraction without trailing zeros,
\* so that equal values are equal records.  The rounding of float is not
\* modelled.

\* int(c) of one digit
DigitValue(c) == CHOOSE d \in 0..9 : IntToStr(d) = <<c>>

\* int(ds) of a sequence of at most three digits
RECURSIVE int(_)
int(ds) ==
    IF ds = <<>> THEN 0
    ELSE int(SubSeq(ds, 1, Len(ds) - 1)) * 10 + DigitValue(ds[Len(ds)])

AllDigits(ds) == \A i \in 1..Len(ds) : IsDigit(ds[i])

\* ds without its trailing zeros
RECURSIVE StripZeros(_)
StripZeros(ds) ==
    IF ds # <<>> /\ ds[Len(ds)] = "0" THEN StripZeros(SubSeq(ds, 1, Len(ds) - 1)) ELSE ds

\* ds without its leading zeros, "0" for zero
RECURSIVE StripLeadingZeros(_)
StripLeadingZeros(ds) ==
    IF Len(ds) > 1 /\ ds[1] = "0" THEN StripLeadingZeros(Tail(ds)) ELSE ds

\* the number whole.frac
Seconds(whole, frac) == [whole |-> StripLeadingZeros(whole), frac |-> StripZeros(frac)]

\* the digits of x, all before those of y where they first differ, or x a
\* proper prefix of y
DigitsBefore(x, y) ==
    \E i \in 1..Len(y) :
        /\ \A j \in 1..(i - 1) : j <= Len(x) /\ x[j] = y[j]
        /\ \/ i > Len(x)
           \/ DigitValue(x[i]) < DigitValue(y[i])

\* x < y on numbers of seconds
SecondsLess(x, y) ==
    \/ Len(x.whole) < Len(y.whole)
    \/ Len(x.whole) = Len(y.whole) /\ x.whole # y.whole /\ DigitsBefore(x.whole, y.whole)
    \/ x.whole = y.whole /\ DigitsBefore(x.frac, y.frac)

\* s.replace(',', '.'), line 34
replace_comma(s) == [i \in 1..Len(s) |-> IF s[i] = "," THEN "." ELSE s[i]]

\* the index of the first c in s, 0 if there is none
IndexOf(s, c) ==
    IF \E i \in 1..Len(s) : s[i] = c
    THEN CHOOSE i \in 1..Len(s) : s[i] = c /\ \A j \in 1..(i - 1) : s[j] # c
    ELSE 0

\* re.fullmatch(r"\d+(?:\.\d+)?", s), line 38
IsFloatForm(s) ==
    LET dot == IndexOf(s, ".")
    IN  IF dot = 0 THEN s # <<>> /\ AllDigits(s)
        ELSE /\ dot > 1 /\ dot < Len(s)
             /\ AllDigits(SubSeq(s, 1, dot - 1))
             /\ AllDigits(SubSeq(s, dot + 1, Len(s)))

\* float(s) of a string in that form, line 40
float(s) ==
    LET dot == IndexOf(s, ".")
    IN  IF dot = 0 THEN Seconds(s, <<>>)
        ELSE Seconds(SubSeq(s, 1, dot - 1), SubSeq(s, dot + 1, Len(s)))

\* re.fullmatch(r"(?P<h>\d{1,2}):(?P<m>\d{2}):(?P<sec>\d{2})(?:\.(?P<ms>\d{1,3}))?", s),
\* line 44: the groups h, m, sec, ms of the match, None if there is no match
HmsMatch(s) ==
    LET hl == IndexOf(s, ":") - 1
        n == Len(s)
        ok == /\ hl \in {1, 2}
              /\ n >= hl + 6
              /\ AllDigits(SubSeq(s, 1, hl))
              /\ AllDigits(SubSeq(s, hl + 2, hl + 3))
              /\ s[hl + 4] = ":"
              /\ AllDigits(SubSeq(s, hl + 5, hl + 6))
              /\ \/ n = hl + 6
                 \/ /\ n >= hl + 8 /\ n <= hl + 10
                    /\ s[hl + 7] = "."
                    /\ AllDigits(SubSeq(s, hl + 8, n))
    IN  IF ok
        THEN << [h |-> SubSeq(s, 1, hl), m |-> SubSeq(s, hl + 2, hl + 3),
                 sec |-> SubSeq(s, hl + 5, hl + 6), ms |-> SubSeq(s, hl + 8, n)] >>
        ELSE None

\* ms_s.ljust(3, "0")[:3], line 51
ljust3(ms_s) == SubSeq(ms_s \o <<"0", "0", "0">>, 1, 3)

\* lines 47-52: float(h * 3600 + mi * 60 + sec) + ms / 1000.0
HmsSeconds(g) ==
    LET h == int(g.h)
        mi == int(g.m)
        sec == int(g.sec)
        ms_s == IF g.ms = <<>> THEN <<"0">> ELSE g.ms
        ms == int(ljust3(ms_s))
    IN  Seconds(IntToStr(h * 3600 + mi * 60 + sec),
                <<IntToStr(ms \div 100)[1], IntToStr((ms \div 10) % 10)[1],
                  IntToStr(ms % 10)[1]>>)

\* _parse_time_to_seconds(s), lines 32-52: <<seconds>> or None
parse_time_to_seconds(str) ==
    LET s == replace_comma(strip(str))
    IN  IF s = <<>> THEN None
        ELSE IF IsFloatForm(s) THEN <<float(s)>>
        ELSE IF HmsMatch(s) = None THEN None
        ELSE <<HmsSeconds(HmsMatch(s)[1])>>

----------------------------------------------------------------------------
\* parse_segment_line, SegmentEditDialog.build_new_line (ui/segments.py)
\*
\* A line is a sequence of characters without line breaks; "EN" stands for
\* the one character EN DASH.

\* [0-9:.,], line 18
IsTsChar(c) == IsDigit(c) \/ c \in {":", ".", ","}

\* the two separators of line 18: '-' and the en dash
IsDash(c) == c \in {"-", "EN"}

\* the first index from i on that holds no character of [0-9:.,]
RECURSIVE SkipTsChars(_, _)
SkipTsChars(s, i) ==
    IF i <= Len(s) /\ IsTsChar(s[i]) THEN SkipTsChars(s, i + 1) ELSE i

\* the first index from i on that holds no whitespace
RECURSIVE SkipSpaces(_, _)
SkipSpaces(s, i) ==
    IF i <= Len(s) /\ IsSpace(s[i]) THEN SkipSpaces(s, i + 1) ELSE i

NoMatch == [ok |-> FALSE, a |-> <<>>, b |-> <<>>, start |-> 0, end |-> 0]

\* _TS_BRACKET_RE matched at index p of s: the groups a and b, the index of
\* the opening and of the closing bracket
TsBracketAt(s, p) ==
    LET a0 == p + 1
        a1 == SkipTsChars(s, a0)
        dash == SkipSpaces(s, a1)
        b0 == SkipSpaces(s, dash + 1)
        b1 == SkipTsChars(s, b0)
    IN  IF /\ s[p] = "["
           /\ a1 > a0
           /\ dash <= Len(s) /\ IsDash(s[dash])
           /\ b1 > b0
           /\ b1 <= Len(s) /\ s[b1] = "]"
        THEN [ok |-> TRUE, a |-> SubSeq(s, a0, a1 - 1), b |-> SubSeq(s, b0, b1 - 1),
              start |-> p, end |-> b1]
        ELSE NoMatch

\* (mutant) the rightmost match is taken
TS_BRACKET_RE_search_Rightmost(s) ==
    LET starts == {p \in 1..Len(s) : s[p] = "[" /\ TsBracketAt(s, p).ok}
    IN  IF starts = {} THEN NoMatch
        ELSE TsBracketAt(s, CHOOSE p \in starts : \A q \in starts : p >= q)

\* _TS_BRACKET_RE.search(s): the leftmost match
TS_BRACKET_RE_search(s) ==
    LET starts == {p \in 1..Len(s) : s[p] = "[" /\ TsBracketAt(s, p).ok}
    IN  IF starts = {} THEN NoMatch
        ELSE TsBracketAt(s, CHOOSE p \in starts : \A q \in starts : p <= q)

\* {1,64} of lines 24 and 28
SpkMaxLen == 64

\* (mutant) a label may hold brackets
SpkMatch_AllowsBrackets(s) ==
    LET colon == IndexOf(s, ":")
    IN  IF colon >= 2 /\ colon - 1 <= SpkMaxLen
        THEN [ok |-> TRUE, spk |-> SubSeq(s, 1, colon - 1),
              rest |-> lstrip(SubSeq(s, colon + 1, Len(s)))]
        ELSE [ok |-> FALSE, spk |-> <<>>, rest |-> <<>>]

\* _SPK_PREFIX_RE.match(s) and, s having no leading whitespace,
\* _SPK_AFTER_TS_RE.match(s): 1 to 64 characters other than ':', '[' and ']',
\* then ':', whitespace, and the rest of the line
SpkMatch(s) ==
    LET colon == IndexOf(s, ":")
    IN  IF /\ colon >= 2
           /\ colon - 1 <= SpkMaxLen
           /\ \A i \in 1..(colon - 1) : s[i] \notin {"[", "]"}
        THEN [ok |-> TRUE, spk |-> SubSeq(s, 1, colon - 1),
              rest |-> lstrip(SubSeq(s, colon + 1, Len(s)))]
        ELSE [ok |-> FALSE, spk |-> <<>>, rest |-> <<>>]

\* the Segment of lines 120-128 (block_number left out)
Segment(ts_bracket, start_s, end_s, speaker, txt, speaker_position) ==
    [ts_bracket |-> ts_bracket, start_s |-> start_s, end_s |-> end_s,
     speaker |-> speaker, text |-> txt, speaker_position |-> speaker_position]

\* (mutant) the bounds are stored in the order they are written
OrderBounds_NoSwap(a, b) == <<a, b>>

\* lines 117-118
OrderBounds(a, b) == IF SecondsLess(b, a) THEN <<b, a>> ELSE <<a, b>>

\* lines 110-115
TextOf(after, before, speaker_position) ==
    IF after = <<>> /\ before # <<>> /\ speaker_position = "none"
    THEN before
    ELSE after

\* parse_segment_line(line), lines 66-128: <<Segment>> or None
parse_segment_line(line) ==
    LET raw == rstrip_newline(line)
        rest0 == strip(raw)
        m0 == SpkMatch(rest0)
        before_ts == m0.ok /\ TS_BRACKET_RE_search(m0.rest).ok
        \* lines 82-86
        speaker0 == IF before_ts THEN strip(m0.spk) ELSE <<>>
        rest == IF before_ts THEN strip(m0.rest) ELSE rest0
        m == TS_BRACKET_RE_search(rest)
        a == parse_time_to_seconds(m.a)
        b == parse_time_to_seconds(m.b)
        after0 == strip(SubSeq(rest, m.end + 1, Len(rest)))
        before == strip(SubSeq(rest, 1, m.start - 1))
        \* lines 102-107
        m1 == SpkMatch(after0)
        after_ts == speaker0 = <<>> /\ after0 # <<>> /\ m1.ok
        speaker == IF after_ts THEN strip(m1.spk) ELSE speaker0
        after == IF after_ts THEN strip(m1.rest) ELSE after0
        speaker_position == IF before_ts THEN "before_ts"
                            ELSE IF after_ts THEN "after_ts" ELSE "none"
        bounds == OrderBounds(a[1], b[1])
    IN  IF strip(raw) = <<>> THEN None
        ELSE IF ~m.ok THEN None
        ELSE IF a = None \/ b = None THEN None
        ELSE << Segment(SubSeq(rest, m.start, m.end), bounds[1], bounds[2],
                        speaker, TextOf(strip(after), before, speaker_position),
                        speaker_position) >>

\* the characters of s that are not "DROP"
Kept(marked) == SelectSeq(marked, LAMBDA c : c # "DROP")

\* s[i..j] is whitespace only
IsSpaceRun(s, i, j) == \A k \in i..j : IsSpace(s[k])

\* re.sub(r"\s{2,}", " ", s), line 528: a run of two or more whitespace
\* characters becomes one blank
CollapseSpaces(s) ==
    Kept([i \in 1..Len(s) |->
            IF ~IsSpace(s[i]) THEN s[i]
            ELSE IF i > 1 /\ IsSpace(s[i - 1]) THEN "DROP"
            ELSE IF i < Len(s) /\ IsSpace(s[i + 1]) THEN " "
            ELSE s[i]])

\* re.sub(r"\s*\n\s*", " ", s), line 527: a run of whitespace that holds a line
\* break becomes one blank
JoinBrokenLines(s) ==
    Kept([i \in 1..Len(s) |->
            IF ~IsSpace(s[i]) THEN s[i]
            ELSE IF \E j \in 1..Len(s) :
                       /\ s[j] = "\n"
                       /\ IsSpaceRun(s, IF i < j THEN i ELSE j, IF i < j THEN j ELSE i)
            THEN (IF i > 1 /\ IsSpace(s[i - 1]) THEN "DROP" ELSE " ")
            ELSE s[i]])

\* lines 532-545 for a speaker that is not empty
LabelledLine(speaker_position, speaker, ts, txt) ==
    IF speaker_position = "before_ts"
    THEN speaker \o <<":", " ">> \o ts \o <<" ">> \o txt
    ELSE ts \o <<" ">> \o speaker \o <<":", " ">> \o txt

\* build_new_line(), lines 523-546, of the dialog opened on seg with spk_edit
\* and txt_edit in its fields
build_new_line(seg, spk_edit, txt_edit) ==
    LET speaker == strip(spk_edit)
        txt == strip(CollapseSpaces(JoinBrokenLines(strip(txt_edit))))
        ts == seg.ts_bracket
    IN  IF speaker # <<>>
        THEN rstrip(LabelledLine(seg.speaker_position, speaker, ts, txt))
        ELSE rstrip(ts \o <<" ">> \o txt)

----------------------------------------------------------------------------
\* The alignment state machine: the two engines deliver their segments, then
\* the alignment runs on what was delivered.

\* nothing delivered, nothing aligned
AlignIdle ==
    /\ whisper_segments = <<>>
    /\ speaker_segments = <<>>
    /\ combined = <<>>
    /\ out_lines = <<>>
    /\ align_pc = "input"

\* no text entered, no diarization called
TextIdle ==
    /\ text = <<>>
    /\ num_speakers = 0
    /\ method = {}
    /\ result_lines = <<>>
    /\ simple_text = <<>>
    /\ tried = <<>>
    /\ n_clusters = 0
    /\ labels = <<>>
    /\ raised = FALSE
    /\ encoded = FALSE
    /\ text_pc = "input"

\* no dialog is shown
NoDialog == [title |-> "", args |-> <<>>]

\* the application has just started: nothing shown, no model loaded
AppIdle ==
    /\ emb_model = "None"
    /\ method_code = ""
    /\ output_text = <<>>
    /\ messagebox = NoDialog

\* no line and no timestamp entered, nothing parsed
CodecIdle ==
    /\ line_pieces = <<>>
    /\ segment = None
    /\ new_line = <<>>
    /\ reparsed = None
    /\ seg_pc = "input"
    /\ ts_pieces = <<>>
    /\ seconds = None
    /\ ts_pc = "input"

\* no voice diarization has written lines
RenderIdle ==
    /\ rendered = <<>>
    /\ rendered_from = <<>>
    /\ parsed_lines = <<>>
    /\ render_pc = "input"

\* what the specifications of the other parts start from
\* diarize_audio_with_pyannote has not been called
PyannoteIdle ==
    /\ tmpdir_exists = FALSE
    /\ mkdtemp_calls = 0
    /\ ffmpeg_runs = 0
    /\ ffmpeg_proc = None
    /\ pipeline_input = "none"
    /\ py_segments = None
    /\ py_raised = None
    /\ py_pc = "idle"

\* diarize_voice_whisper_pyannote_safe has not been called
WorkerIdle ==
    /\ worker_stdout = <<>>
    /\ worker_exit = None
    /\ safe_result = None
    /\ safe_pc = "input"

\* the speaker names panel over two empty panes
NamesIdle ==
    /\ left = <<>>
    /\ right = <<>>
    /\ edit_fields = <<>>
    /\ applied = None
    /\ names_pc = "edit"

\* the application after construction, lines 483-495, with both packages
VoiceIdle ==
    /\ HAS_WHISPER = TRUE
    /\ HAS_PYANNOTE = TRUE
    /\ audio_path = None
    /\ whisper_model_var = "small"
    /\ whisper_model = None
    /\ current_whisper_model_name = None
    /\ whisper_loads = 0
    /\ pyannote_pipeline = None
    /\ pyannote_token_var = ""
    /\ hf_token_env = None
    /\ voice_trace = <<>>

\* the parts that were added to the first five are idle
MoreIdle == PyannoteIdle /\ WorkerIdle /\ NamesIdle /\ VoiceIdle

OthersIdle == HAS_NLP_LIBS = TRUE /\ AppIdle /\ CodecIdle /\ RenderIdle /\ MoreIdle

InitAlign == AlignIdle /\ TextIdle /\ OthersIdle

\* the speech engine delivers one more text segment
EmitTextSegment ==
    /\ align_pc = "input"
    /\ Len(whisper_segments) + Len(speaker_segments) < MaxItems
    /\ \E ws \in Times, we \in Times, txt \in Texts :
          whisper_segments' = Append(whisper_segments, <<ws, we, txt>>)
    /\ UNCHANGED <<speaker_segments, combined, out_lines, align_pc>>
    /\ UNCHANGED <<text_vars, app_vars, codec_vars, render_vars, more_vars>>

\* the diarization engine delivers one more speaker turn
EmitSpeakerTurn ==
    /\ align_pc = "input"
    /\ Len(whisper_segments) + Len(speaker_segments) < MaxItems
    /\ \E ss \in Times, se \in Times, spk \in Speakers :
          speaker_segments' = Append(speaker_segments, <<ss, se, spk>>)
    /\ UNCHANGED <<whisper_segments, combined, out_lines, align_pc>>
    /\ UNCHANGED <<text_vars, app_vars, codec_vars, render_vars, more_vars>>

\* combined = assign_speakers_by_time(whisper_segments, speaker_segments)
AssignSpeakers ==
    /\ align_pc = "input"
    /\ combined' = assign_speakers_by_time(whisper_segments, speaker_segments)
    /\ align_pc' = "assigned"
    /\ UNCHANGED <<whisper_segments, speaker_segments, out_lines>>
    /\ UNCHANGED <<text_vars, app_vars, codec_vars, render_vars, more_vars>>

\* the inline loop of diarize_voice_whisper_pyannote on the same input
DiarizeVoiceLegacy ==
    /\ align_pc = "input"
    /\ out_lines' = LegacyOutLines(whisper_segments, speaker_segments)
    /\ align_pc' = "legacy"
    /\ UNCHANGED <<whisper_segments, speaker_segments, combined>>
    /\ UNCHANGED <<text_vars, app_vars, codec_vars, render_vars, more_vars>>

NextAlign ==
    EmitTextSegment \/ EmitSpeakerTurn \/ AssignSpeakers \/ DiarizeVoiceLegacy

SpecAlign == InitAlign /\ [][NextAlign]_vars

----------------------------------------------------------------------------
\* The text diarization state machine: a text is entered, then one of the
\* diarization functions is called on it.

\* lines = text.splitlines(), AIstateLight.py line 891
lines == splitlines(text)

InitText ==
    /\ AlignIdle
    /\ text = <<>>
    /\ num_speakers = 0
    /\ method = {}
    /\ result_lines = <<>>
    /\ simple_text = <<>>
    /\ tried = <<>>
    /\ n_clusters = 0
    /\ labels = <<>>
    /\ raised = FALSE
    /\ encoded = FALSE
    /\ text_pc = "input"
    /\ OthersIdle

\* one more character of the input text
TypeChar ==
    /\ text_pc = "input"
    /\ Len(text) < MaxTextLen
    /\ \E c \in TextChars : text' = Append(text, c)
    /\ UNCHANGED <<num_speakers, method, result_lines, simple_text, tried,
                   n_clusters, labels, raised, encoded, text_pc>>
    /\ UNCHANGED <<align_vars, app_vars, codec_vars, render_vars, more_vars>>

\* result_lines = diarize_alternating(lines, num_speakers)
DiarizeAlternating ==
    /\ text_pc = "input"
    /\ \E n \in 1..MaxSpeakers :
          /\ num_speakers' = n
          /\ result_lines' = diarize_alternating(lines, n)
    /\ text_pc' = "alternating"
    /\ UNCHANGED <<text, method, simple_text, tried, n_clusters, labels, raised,
                   encoded>>
    /\ UNCHANGED <<align_vars, app_vars, codec_vars, render_vars, more_vars>>

\* diarize_with_embeddings_fixed(ls, ns, model), lines 211-242: what the call
\* returns, which clustering it ran and whether it ended in an exception
diarize_with_embeddings_fixed(ls, ns) ==
    LET n == Len(LineIndices(ls))
        k == FixedClusterCount(n, ns)
    IN  /\ tried' = <<>>
        /\ IF n = 0
           THEN \* lines 220-221
                /\ result_lines' = ls
                /\ n_clusters' = 0 /\ labels' = <<>> /\ raised' = FALSE
                /\ encoded' = FALSE
           ELSE IF ~KMeansAccepts(k, n)
           THEN \* KMeans raises, lines 227-228
                /\ result_lines' = <<>>
                /\ n_clusters' = k /\ labels' = <<>> /\ raised' = TRUE
                /\ encoded' = TRUE
           ELSE \E labs \in Labelings(k, n) :
                /\ result_lines' = LabelledLines(ls, labs)
                /\ n_clusters' = k /\ labels' = labs /\ raised' = FALSE
                /\ encoded' = TRUE

\* result_lines = diarize_with_embeddings_fixed(lines, num_speakers, model)
DiarizeEmbeddingsFixed ==
    /\ text_pc = "input"
    /\ \E ns \in 1..MaxSpeakers :
          /\ num_speakers' = ns
          /\ diarize_with_embeddings_fixed(lines, ns)
    /\ text_pc' = "fixed"
    /\ UNCHANGED <<text, method, simple_text>>
    /\ UNCHANGED <<align_vars, app_vars, codec_vars, render_vars, more_vars>>

\* diarize_with_embeddings_auto(ls, max_speakers, model), lines 245-297
diarize_with_embeddings_auto(ls, max_speakers) ==
    LET n == Len(LineIndices(ls))
        max_k == Min(max_speakers, n)
    IN  IF n = 0
        THEN \* lines 254-255
             /\ result_lines' = ls
             /\ tried' = <<>> /\ n_clusters' = 0 /\ labels' = <<>>
             /\ raised' = FALSE /\ encoded' = FALSE
        ELSE IF n < 2
        THEN \* lines 257-258
             /\ result_lines' = diarize_alternating(ls, 1)
             /\ tried' = <<>> /\ n_clusters' = 0 /\ labels' = <<>>
             /\ raised' = FALSE /\ encoded' = FALSE
        ELSE \* KMeans is deterministic (random_state = 0): the final
             \* call with k does what the candidate k did
             \E outcome \in [2..Max(max_k, 2) -> Outcomes] :
                LET k == AutoFinalK(n, max_speakers, outcome)
                IN  /\ tried' = [c \in 2..max_k |-> outcome[c]]
                    /\ n_clusters' = k
                    /\ encoded' = TRUE
                    /\ IF outcome[k].kind = "kmeans_raised" \/ ~KMeansAccepts(k, n)
                       THEN \* lines 282-283 raise
                            /\ result_lines' = <<>>
                            /\ labels' = <<>> /\ raised' = TRUE
                       ELSE \E labs \in Labelings(k, n) :
                            /\ result_lines' = LabelledLines(ls, labs)
                            /\ labels' = labs /\ raised' = FALSE

\* result_lines = diarize_with_embeddings_auto(lines, max_speakers, model)
DiarizeEmbeddingsAuto ==
    /\ text_pc = "input"
    /\ \E max_speakers \in 1..MaxSpeakers :
          /\ num_speakers' = max_speakers
          /\ diarize_with_embeddings_auto(lines, max_speakers)
    /\ text_pc' = "auto"
    /\ UNCHANGED <<text, method, simple_text>>
    /\ UNCHANGED <<align_vars, app_vars, codec_vars, render_vars, more_vars>>

\* diarize_text_simple(text, speakers, method)["text"]
DiarizeTextSimple ==
    /\ text_pc = "input"
    /\ \E speakers \in 1..MaxSpeakers, m \in Methods :
          /\ num_speakers' = speakers
          /\ method' = m
          /\ simple_text' = diarize_text_simple(text, speakers, m)
    /\ text_pc' = "simple"
    /\ UNCHANGED <<text, result_lines, tried, n_clusters, labels, raised, encoded>>
    /\ UNCHANGED <<align_vars, app_vars, codec_vars, render_vars, more_vars>>

\* the concatenation of the pieces ps
RECURSIVE Concat(_)
Concat(ps) == IF ps = <<>> THEN <<>> ELSE Head(ps) \o Concat(Tail(ps))

\* the sequences of at most n elements of S
SeqsUpTo(S, n) == UNION {[1..k -> S] : k \in 0..n}

\* the pieces a text with speaker tags is put together from: tags in several
\* spellings, a tag word without a number, a colon, a letter, a blank, a line
\* break
TagPieces ==
    { <<"S", "P", "K", "1", ":">>,
      <<"s", "p", "k", " ", "2", "-">>,
      <<"S", "p", "e", "a", "k", "e", "r", "3", ":">>,
      <<"S", "P", "K">>,
      <<":">>, <<"a">>, <<" ">>, <<"\n">> }

\* the text argument of diarize_text_simple: a text that may hold speaker tags
PasteText ==
    /\ text_pc = "input"
    /\ text = <<>>
    /\ \E ps \in SeqsUpTo(TagPieces, MaxTextPieces) : text' = Concat(ps)
    /\ UNCHANGED <<num_speakers, method, result_lines, simple_text, tried,
                   n_clusters, labels, raised, encoded, text_pc>>
    /\ UNCHANGED <<align_vars, app_vars, codec_vars, render_vars, more_vars>>

\* diarize_text_simple(text, speakers, method)["text"] under the keep policy
DiarizeTextKeep ==
    /\ text_pc = "input"
    /\ \E speakers \in 1..MaxSpeakers, m \in KeepMethods :
          /\ num_speakers' = speakers
          /\ method' = m
          /\ simple_text' = diarize_text_simple(text, speakers, m)
    /\ text_pc' = "simple"
    /\ UNCHANGED <<text, result_lines, tried, n_clusters, labels, raised, encoded>>
    /\ UNCHANGED <<align_vars, app_vars, codec_vars, render_vars, more_vars>>

NextKeep ==
    \/ PasteText
    \/ DiarizeTextKeep

SpecKeep == InitText /\ [][NextKeep]_vars

\* the functions that need no model: diarize_alternating, diarize_text_simple
NextText ==
    \/ TypeChar
    \/ DiarizeAlternating
    \/ DiarizeTextSimple

SpecText == InitText /\ [][NextText]_vars

\* the functions of AIstateLight.py: alternating and the two embedding policies
NextEmbeddings ==
    \/ TypeChar
    \/ DiarizeAlternating
    \/ DiarizeEmbeddingsFixed
    \/ DiarizeEmbeddingsAuto

SpecEmbeddings == InitText /\ [][NextEmbeddings]_vars

----------------------------------------------------------------------------
\* The timestamp state machine: a timestamp string is entered piece by piece,
\* then parsed.

\* the pieces of a timestamp: one digit, two digits, the separators
TsPieces == { <<"1">>, <<"0", "5">>, <<":">>, <<".">>, <<",">> }

\* the string that was entered
ts_string == Concat(ts_pieces)

InitTimestamp == AlignIdle /\ TextIdle /\ OthersIdle

TypeTsPiece ==
    /\ ts_pc = "input"
    /\ Len(ts_pieces) < MaxTsPieces
    /\ \E p \in TsPieces : ts_pieces' = Append(ts_pieces, p)
    /\ UNCHANGED <<line_pieces, segment, new_line, reparsed, seg_pc, seconds, ts_pc>>
    /\ UNCHANGED <<align_vars, text_vars, app_vars, render_vars, more_vars>>

\* seconds = _parse_time_to_seconds(s)
ParseTime ==
    /\ ts_pc = "input"
    /\ seconds' = parse_time_to_seconds(ts_string)
    /\ ts_pc' = "parsed"
    /\ UNCHANGED <<line_pieces, segment, new_line, reparsed, seg_pc, ts_pieces>>
    /\ UNCHANGED <<align_vars, text_vars, app_vars, render_vars, more_vars>>

NextTimestamp ==
    \/ TypeTsPiece
    \/ ParseTime

SpecTimestamp == InitTimestamp /\ [][NextTimestamp]_vars

----------------------------------------------------------------------------
\* The segment line state machine: a line is entered piece by piece and
\* parsed; the edit dialog opened on the segment is accepted with its fields as
\* they are, and the line it built is parsed again.

\* a run of n letters
Letters(n) == [i \in 1..n |-> "a"]

\* a label of SpkMaxLen + 1 characters that holds two blanks in a row
WideLabel == <<"a", " ", " ">> \o Letters(SpkMaxLen - 2)

\* the pieces of a line: timestamp brackets (plain, reversed bounds, en dash
\* with blanks and h:mm:ss with a comma, a timestamp that does not parse), a
\* letter, a label, a blank, a closing bracket, the wide label
LinePieces ==
    { <<"[", "1", "-", "2", "]">>,
      <<"[", "5", ".", "0", "-", "2", ".", "0", "]">>,
      <<"[", "0", ":", "0", "0", ":", "0", "1", ",", "5", " ", "EN", " ", "1", "]">>,
      <<"[", "1", ":", "0", "5", "-", "2", "]">>,
      <<"a">>, <<"b", ":">>, <<":">>, <<" ">>, <<"]">>,
      WideLabel }

\* the line that was entered
line == Concat(line_pieces)

InitCodec == AlignIdle /\ TextIdle /\ OthersIdle

TypeLinePiece ==
    /\ seg_pc = "input"
    /\ Len(line_pieces) < MaxLinePieces
    /\ \E p \in LinePieces : line_pieces' = Append(line_pieces, p)
    /\ UNCHANGED <<segment, new_line, reparsed, seg_pc, ts_pieces, seconds, ts_pc>>
    /\ UNCHANGED <<align_vars, text_vars, app_vars, render_vars, more_vars>>

\* segment = parse_segment_line(line)
ParseSegmentLine ==
    /\ seg_pc = "input"
    /\ segment' = parse_segment_line(line)
    /\ seg_pc' = "parsed"
    /\ UNCHANGED <<line_pieces, new_line, reparsed, ts_pieces, seconds, ts_pc>>
    /\ UNCHANGED <<align_vars, text_vars, app_vars, render_vars, more_vars>>

\* new_line = dlg.build_new_line(), the fields of the dialog holding
\* seg.speaker and seg.text (lines 445-447)
BuildNewLine ==
    /\ seg_pc = "parsed"
    /\ segment # None
    /\ new_line' = build_new_line(segment[1], segment[1].speaker, segment[1].text)
    /\ seg_pc' = "built"
    /\ UNCHANGED <<line_pieces, segment, reparsed, ts_pieces, seconds, ts_pc>>
    /\ UNCHANGED <<align_vars, text_vars, app_vars, render_vars, more_vars>>

\* the editor parses the line that replaced the old one
ReparseLine ==
    /\ seg_pc = "built"
    /\ reparsed' = parse_segment_line(new_line)
    /\ seg_pc' = "reparsed"
    /\ UNCHANGED <<line_pieces, segment, new_line, ts_pieces, seconds, ts_pc>>
    /\ UNCHANGED <<align_vars, text_vars, app_vars, render_vars, more_vars>>

NextCodec ==
    \/ TypeLinePiece
    \/ ParseSegmentLine
    \/ BuildNewLine
    \/ ReparseLine

SpecCodec == InitCodec /\ [][NextCodec]_vars

----------------------------------------------------------------------------
\* The text diarization handler of the application (AIstateLight.py): the
\* user fills the input pane and clicks, any number of times.

\* the dialogs of on_diarize_clicked and ensure_text_model_loaded: the title
\* (without its diacritics) and the values formatted into the message
Dialog(title, args) == [title |-> title, args |-> args]

\* the codes of method_display_to_code
MethodCodes == {"alternating", "embeddings_fixed", "embeddings_auto"}

\* the contents of the input pane
AppTexts ==
    { <<>>, <<" ">>, <<"a">>, <<"a", "\n", "a">>, <<"a", "\n", " ", "\n", "a">> }

InitApp ==
    /\ AlignIdle
    /\ TextIdle
    /\ HAS_NLP_LIBS \in BOOLEAN
    /\ AppIdle
    /\ CodecIdle
    /\ RenderIdle
    /\ MoreIdle

\* the user replaces the content of the input pane
EnterText ==
    /\ \E t \in AppTexts : text' = t
    /\ UNCHANGED <<num_speakers, method, result_lines, simple_text, tried,
                   n_clusters, labels, raised, encoded, text_pc>>
    /\ UNCHANGED <<align_vars, app_vars, codec_vars, render_vars, more_vars>>

\* the click ends before any diarization function is called
NothingDiarized ==
    /\ result_lines' = <<>>
    /\ tried' = <<>> /\ n_clusters' = 0 /\ labels' = <<>>
    /\ raised' = FALSE /\ encoded' = FALSE

\* lines 922-923 after the call of a diarization function, lines 917-920 when
\* it raised
ShowResult ==
    IF raised'
    THEN /\ messagebox' = Dialog("Blad diarizacji", <<"e">>)
         /\ UNCHANGED output_text
    ELSE /\ messagebox' = NoDialog
         /\ output_text' = join_newline(result_lines')

\* ensure_text_model_loaded(app), lines 183-208, and the call that call(model)
\* makes with the model; can_load: SentenceTransformer(MODEL_NAME) returns
WithTextModel(can_load, call) ==
    IF ~HAS_NLP_LIBS
    THEN \* lines 185-191
         /\ messagebox' = Dialog("Brak bibliotek", <<>>)
         /\ NothingDiarized
         /\ UNCHANGED <<emb_model, output_text>>
    ELSE IF emb_model # "None"
    THEN \* lines 193-194
         /\ call
         /\ ShowResult
         /\ UNCHANGED emb_model
    ELSE IF can_load
    THEN \* lines 196-202
         /\ emb_model' = "loaded"
         /\ call
         /\ ShowResult
    ELSE \* lines 203-208
         /\ messagebox' = Dialog("Blad ladowania modelu", <<"MODEL_NAME", "e">>)
         /\ NothingDiarized
         /\ UNCHANGED <<emb_model, output_text>>

\* on_diarize_clicked, lines 883-925; text.get("1.0", tk.END) is the content of
\* the pane and the line break that the widget adds
on_diarize_clicked ==
    \E code \in MethodCodes, speakers_var \in 0..MaxSpeakers, can_load \in BOOLEAN :
        LET got == text \o <<"\n">>
            ls == splitlines(got)
        IN  /\ method_code' = code
            /\ IF strip(got) = <<>>
               THEN \* lines 885-888
                    /\ messagebox' = Dialog("Brak tekstu", <<>>)
                    /\ num_speakers' = 0
                    /\ NothingDiarized
                    /\ UNCHANGED <<emb_model, output_text>>
               ELSE IF code = "alternating"
               THEN \* lines 896-898
                    /\ num_speakers' = Max(1, speakers_var)
                    /\ result_lines' = diarize_alternating(ls, Max(1, speakers_var))
                    /\ tried' = <<>> /\ n_clusters' = 0 /\ labels' = <<>>
                    /\ raised' = FALSE /\ encoded' = FALSE
                    /\ ShowResult
                    /\ UNCHANGED emb_model
               ELSE IF code = "embeddings_fixed"
               THEN \* lines 900-905
                    /\ num_speakers' = Max(1, speakers_var)
                    /\ WithTextModel(can_load,
                           diarize_with_embeddings_fixed(ls, Max(1, speakers_var)))
               ELSE IF code = "embeddings_auto"
               THEN \* lines 907-912
                    /\ num_speakers' = Max(2, speakers_var)
                    /\ WithTextModel(can_load,
                           diarize_with_embeddings_auto(ls, Max(2, speakers_var)))
               ELSE \* lines 914-917
                    /\ messagebox' = Dialog("Blad", <<code>>)
                    /\ num_speakers' = 0
                    /\ NothingDiarized
                    /\ UNCHANGED <<emb_model, output_text>>

OnDiarizeClicked ==
    /\ on_diarize_clicked
    /\ text_pc' = "clicked"
    /\ UNCHANGED <<text, method, simple_text, HAS_NLP_LIBS>>
    /\ UNCHANGED <<align_vars, codec_vars, render_vars, more_vars>>

NextApp ==
    \/ EnterText
    \/ OnDiarizeClicked

SpecApp == InitApp /\ [][NextApp]_vars

----------------------------------------------------------------------------
\* Claims on the alignment

\* what a text segment and a turn share, as the claims state it
ClaimOverlap(seg, t) == Max(0, Min(seg[2], t[2]) - Max(seg[1], t[1]))

\* the segments the legacy loop writes a line for, in order
WrittenSegments == SelectSeq(whisper_segments, LAMBDA seg : StripText(seg[3]) # "")

\* C1: assign_speakers_by_time returns exactly one tuple per input text
\* segment, in the same order, and the i-th output's (start, end, text) is the
\* i-th input's: nothing is dropped, merged or split.
C1_OnePerSegment ==
    align_pc = "assigned" =>
        /\ Len(combined) = Len(whisper_segments)
        /\ \A i \in 1..Len(whisper_segments) :
              /\ combined[i][2] = whisper_segments[i][1]
              /\ combined[i][3] = whisper_segments[i][2]
              /\ combined[i][4] = whisper_segments[i][3]

\* two different segments, the second without any overlapping turn, aligned
C1_Witness ==
    /\ align_pc = "assigned"
    /\ Len(whisper_segments) = 2
    /\ whisper_segments[1] # whisper_segments[2]
    /\ Len(speaker_segments) = 1
    /\ combined[1][1] = "S1"
    /\ combined[2][1] = "UNKNOWN"

\* the index of the turn the claim says wins for seg: the first turn whose
\* overlap is the greatest, when that overlap is positive; 0 when none is
ClaimWinner(seg, turns) ==
    LET best == CHOOSE o \in {ClaimOverlap(seg, turns[j]) : j \in DOMAIN turns} \cup {0} :
                    \A j \in DOMAIN turns : ClaimOverlap(seg, turns[j]) <= o
    IN  IF best = 0 THEN 0
        ELSE CHOOSE j \in DOMAIN turns :
                /\ ClaimOverlap(seg, turns[j]) = best
                /\ \A h \in 1..(j - 1) : ClaimOverlap(seg, turns[h]) < best

\* C2: the speaker assigned to a text segment is the speaker of a turn whose
\* overlap with it is the greatest over all turns, and among several turns
\* with that greatest positive overlap the first of the turn sequence.
C2_GreatestOverlapFirstWins ==
    /\ align_pc = "assigned" =>
          \A i \in 1..Len(combined) :
              LET w == ClaimWinner(whisper_segments[i], speaker_segments)
              IN  w # 0 => combined[i][1] = speaker_segments[w][3]
    /\ align_pc = "legacy" =>
          \A i \in 1..Len(out_lines) :
              LET w == ClaimWinner(WrittenSegments[i], speaker_segments)
              IN  w # 0 => out_lines[i].best_spk = speaker_segments[w][3]

\* a segment whose two turns overlap it equally, of different speakers: the
\* first one is taken
C2_Witness ==
    /\ align_pc = "assigned"
    /\ Len(whisper_segments) = 1
    /\ Len(speaker_segments) = 2
    /\ speaker_segments[1][3] # speaker_segments[2][3]
    /\ ClaimOverlap(whisper_segments[1], speaker_segments[1]) > 0
    /\ ClaimOverlap(whisper_segments[1], speaker_segments[1])
         = ClaimOverlap(whisper_segments[1], speaker_segments[2])
    /\ combined[1][1] = speaker_segments[1][3]

\* C3: a text segment gets the sentinel "UNKNOWN" exactly when no turn has a
\* strictly positive overlap with it (no turn at all, turns that only touch
\* it, reversed bounds); the alignment always returns.
C3_UnknownIffNoOverlap ==
    /\ align_pc = "assigned" =>
          \A i \in 1..Len(combined) :
              combined[i][1] = "UNKNOWN"
                <=> \A j \in DOMAIN speaker_segments :
                        ClaimOverlap(whisper_segments[i], speaker_segments[j]) = 0
    /\ align_pc = "legacy" =>
          \A i \in 1..Len(out_lines) :
              out_lines[i].best_spk = "UNKNOWN"
                <=> \A j \in DOMAIN speaker_segments :
                        ClaimOverlap(WrittenSegments[i], speaker_segments[j]) = 0

\* a segment with reversed bounds and a turn that only touches another
\* segment at its end: both are UNKNOWN
C3_Witness ==
    /\ align_pc = "assigned"
    /\ Len(whisper_segments) = 2
    /\ Len(speaker_segments) = 1
    /\ whisper_segments[1][2] < whisper_segments[1][1]
    /\ whisper_segments[2][1] < whisper_segments[2][2]
    /\ speaker_segments[1][1] = whisper_segments[2][2]
    /\ speaker_segments[1][1] < speaker_segments[1][2]
    /\ combined[1][1] = "UNKNOWN"
    /\ combined[2][1] = "UNKNOWN"

----------------------------------------------------------------------------
\* Claims on the text-only diarization

IsBlank(l) == strip(l) = <<>>

\* the non-blank lines of ls, in order
NonBlank(ls) == SelectSeq(ls, LAMBDA l : ~IsBlank(l))

\* how many non-blank lines of ls stand before line i
NonBlankBefore(ls, i) == Cardinality({h \in 1..(i - 1) : ~IsBlank(ls[h])})

\* l starts with "[SPKs] "
HasSpkTag(l, s) ==
    LET tag == SpkTag(s)
    IN  Len(l) >= Len(tag) /\ SubSeq(l, 1, Len(tag)) = tag

\* a line of diarize_text_simple: "SPKs: " and then u
IsSimpleLine(l, s, u) == l = <<"S", "P", "K">> \o IntToStr(s) \o <<":", " ">> \o u

\* C4: under the alternating policy with N >= 1 speakers the i-th non-empty
\* unit, counted from 0 without the blank lines, is labelled SPK((i mod N) + 1).
C4_AlternatingCycle ==
    /\ text_pc = "alternating" =>
          LET labelled == NonBlank(result_lines)
              units == NonBlank(lines)
          IN  /\ Len(labelled) = Len(units)
              /\ \A i \in 1..Len(labelled) :
                    HasSpkTag(labelled[i], ((i - 1) % num_speakers) + 1)
    /\ (text_pc = "simple" /\ IsAlternate(method)) =>
          LET written == splitlines(simple_text)
              units == NonBlank(lines)
          IN  /\ Len(written) = Len(units)
              /\ \A i \in 1..Len(written) :
                    IsSimpleLine(written[i], ((i - 1) % num_speakers) + 1,
                                 strip(units[i]))

\* three non-empty lines and a blank one between them, two speakers: the
\* third non-empty line is SPK1 again
C4_Witness ==
    /\ text_pc = "alternating"
    /\ num_speakers = 2
    /\ Len(NonBlank(lines)) = 3
    /\ \E i \in 2..(Len(lines) - 1) : IsBlank(lines[i])
    /\ HasSpkTag(result_lines[Len(result_lines)], 1)
    /\ \E i \in 1..Len(result_lines) : HasSpkTag(result_lines[i], 2)

\* C5: diarize_alternating, diarize_with_embeddings_fixed and
\* diarize_with_embeddings_auto return as many lines as they got; a blank
\* input line gives a blank line at the same index and takes no speaker label;
\* a non-blank line at index i gives, at index i, a speaker label followed by
\* that line's text.
C5_LinesKeptInPlace ==
    (text_pc \in {"alternating", "fixed", "auto"} /\ ~raised) =>
        LET ls == lines
        IN  /\ Len(result_lines) = Len(ls)
            /\ \A i \in 1..Len(ls) :
                  IF IsBlank(ls[i])
                  THEN IsBlank(result_lines[i])
                  ELSE /\ \E s \in 1..Len(ls) : result_lines[i] = SpkTag(s) \o ls[i]
                       /\ text_pc = "alternating" =>
                             result_lines[i]
                               = SpkTag((NonBlankBefore(ls, i) % num_speakers) + 1)
                                 \o ls[i]

\* a clustering of two lines with a blank line between them into two clusters
C5_Witness ==
    /\ text_pc = "fixed"
    /\ ~raised
    /\ Len(lines) = 3
    /\ IsBlank(lines[2])
    /\ Len(labels) = 2
    /\ labels[1] # labels[2]
    /\ HasSpkTag(result_lines[3], 2)

C7_FixedClusterCountClamped ==
    text_pc = "fixed" =>
        LET n == Len(NonBlank(lines))
        IN  n >= 1 =>
              /\ n_clusters = Min(num_speakers, n)
              /\ n_clusters >= 1
              /\ n_clusters <= n
              /\ ~raised

\* one non-empty line and more speakers asked for: clustered with k = 1
C7_Witness ==
    /\ text_pc = "fixed"
    /\ Len(NonBlank(lines)) = 1
    /\ num_speakers = MaxSpeakers
    /\ n_clusters = 1
    /\ ~raised
    /\ Len(labels) = 1

\* the numbers of the labels that the non-empty lines carry in the result
\* (0 for a line without a label)
SpkOfLines ==
    LET idx == LineIndices(lines)
    IN  [j \in 1..Len(idx) |->
            LET l == result_lines[idx[j]]
            IN  IF \E s \in 1..Len(idx) : HasSpkTag(l, s)
                THEN CHOOSE s \in 1..Len(idx) : HasSpkTag(l, s)
                ELSE 0]

\* C8: both embedding policies number the clusters in the order of their first
\* appearance: the first non-empty line is SPK1, SPK(j+1) first appears only
\* after SPK1..SPKj have appeared, the ids in use are exactly 1..m for m
\* distinct clusters, and two lines have the same id iff they are in the same
\* cluster.
C8_FirstAppearanceOrder ==
    (text_pc \in {"fixed", "auto"} /\ ~raised /\ Len(result_lines) = Len(lines)) =>
        LET spk == SpkOfLines
            n == Len(spk)
        IN  n >= 1 =>
              /\ \A j \in 1..n : spk[j] >= 1
              /\ spk[1] = 1
              /\ \A j \in 1..n : \A s \in 1..(spk[j] - 1) :
                    \E h \in 1..(j - 1) : spk[h] = s
              /\ labels # <<>> =>
                    /\ Len(labels) = n
                    /\ {spk[j] : j \in 1..n}
                         = 1..Cardinality({labels[j] : j \in 1..n})
                    /\ \A j, h \in 1..n : spk[j] = spk[h] <=> labels[j] = labels[h]

\* three lines of which the first and the last fall into a cluster whose
\* index is not 0, the second into another one: SPK1, SPK2, SPK1
C8_Witness ==
    /\ text_pc = "auto"
    /\ ~raised
    /\ Len(labels) = 3
    /\ labels[1] # 0
    /\ labels[1] = labels[3]
    /\ labels[2] # labels[1]
    /\ SpkOfLines = <<1, 2, 1>>

\* the candidates that diarize_with_embeddings_auto could score
Scored == {c \in DOMAIN tried : IsScore(tried[c])}

\* C9: with at least 2 non-empty lines, the final clustering of
\* diarize_with_embeddings_auto uses the k of 2..min(max_speakers, number of
\* non-empty lines) whose silhouette score is the highest among the candidates
\* that could be scored, and of several candidates with that score the
\* smallest k.
C9_BestScoredKFirstWins ==
    text_pc = "auto" =>
        LET n == Len(NonBlank(lines))
        IN  n >= 2 =>
              /\ DOMAIN tried = 2..Min(num_speakers, n)
              /\ Scored # {} =>
                    /\ n_clusters \in Scored
                    /\ \A c \in Scored :
                          /\ tried[c].score <= tried[n_clusters].score
                          /\ c < n_clusters => tried[c].score < tried[n_clusters].score

\* two candidates with the same score: the final clustering uses k = 2
C9_Witness ==
    /\ text_pc = "auto"
    /\ ~raised
    /\ Scored = {2, 3}
    /\ tried[2].score = tried[3].score
    /\ n_clusters = 2
    /\ Len(labels) = 3

\* C10: an exception raised while clustering or scoring a candidate k does not
\* leave diarize_with_embeddings_auto: the candidate is skipped and the call
\* still returns a labelled result.
C10_AutoAlwaysReturns ==
    (text_pc = "auto" /\ \E c \in DOMAIN tried : ~IsScore(tried[c])) =>
        /\ ~raised
        /\ Len(result_lines) = Len(lines)
        /\ \A i \in 1..Len(lines) :
              ~IsBlank(lines[i]) => \E s \in 1..Len(lines) : HasSpkTag(result_lines[i], s)

\* C11 as stated: with fewer than 2 non-empty lines the result of
\* diarize_with_embeddings_auto equals the alternating output for a single
\* speaker and neither the embedding model nor the clustering is invoked; when
\* no candidate could be scored and there are at least 2 non-empty lines, the
\* final clustering uses k = 2.
C11_FewLinesAsAlternating ==
    text_pc = "auto" =>
        LET ls == lines
            n == Len(NonBlank(ls))
        IN  /\ n < 2 =>
                  /\ result_lines = diarize_alternating(ls, 1)
                  /\ ~encoded
                  /\ n_clusters = 0 /\ tried = <<>> /\ labels = <<>>
            /\ (n >= 2 /\ Scored = {}) => n_clusters = 2

\* C11 (amended): with exactly one non-empty line the result of
\* diarize_with_embeddings_auto equals the alternating output for a single
\* speaker (the line is labelled SPK1, blank lines become empty); with no
\* non-empty line the input lines are returned as they are, whitespace
\* included; in both cases neither the embedding model nor the clustering is
\* invoked. When no candidate could be scored and there are at least 2
\* non-empty lines, the final clustering uses k = 2.
C11_FewLinesNoClustering ==
    text_pc = "auto" =>
        LET ls == lines
            n == Len(NonBlank(ls))
        IN  /\ n = 1 =>
                  /\ result_lines = diarize_alternating(ls, 1)
                  /\ \A i \in 1..Len(ls) :
                        ~IsBlank(ls[i]) => result_lines[i] = SpkTag(1) \o ls[i]
            /\ n = 0 => result_lines = ls
            /\ n < 2 =>
                  /\ ~raised
                  /\ ~encoded
                  /\ n_clusters = 0 /\ tried = <<>> /\ labels = <<>>
            /\ (n >= 2 /\ Scored = {}) => n_clusters = 2

\* three non-empty lines, two candidates, neither of which could be scored:
\* the final clustering runs with k = 2
C11_Witness ==
    /\ text_pc = "auto"
    /\ Len(NonBlank(lines)) = 3
    /\ DOMAIN tried = {2, 3}
    /\ Scored = {}
    /\ n_clusters = 2
    /\ ~raised
    /\ encoded

----------------------------------------------------------------------------
\* Claims on the keep policy

\* l starts with a speaker tag as the claim spells it: SPKn: or SPEAKERn:, in
\* any letter case
ClaimTagged(l) ==
    \E w \in 1..Len(TagWords), d \in 1..Len(l) :
        LET word == TagWords[w]
        IN  /\ StartsWithWord(l, word)
            /\ Len(l) >= Len(word) + d + 1
            /\ \A i \in (Len(word) + 1)..(Len(word) + d) : IsDigit(l[i])
            /\ l[Len(word) + d + 1] = ":"

\* how many of the lines before line i of ls carry no tag
UntaggedBefore(ls, i) == Cardinality({h \in 1..(i - 1) : ~ClaimTagged(ls[h])})

\* C12: under the keep policy every non-empty line that starts with a speaker
\* tag (SPKn: or SPEAKERn:, any letter case) is in the output unchanged, and
\* the other lines, in order, get alternating labels: the j-th untagged line,
\* j from 0, gets SPK((j mod N) + 1).  (Stated on the texts whose tags are all
\* spelled as the claim spells them: no blank after the word, ':' after the
\* number.)
C12_KeepTaggedAlternateRest ==
    (text_pc = "simple" /\ IsKeep(method)) =>
        LET written == splitlines(simple_text)
            nonblank == NonBlank(lines)
            units == [i \in 1..Len(nonblank) |-> strip(nonblank[i])]
        IN  (\A i \in 1..Len(units) : MatchesSpeakerTag(units[i]) <=> ClaimTagged(units[i]))
            =>
            /\ Len(written) = Len(units)
            /\ \A i \in 1..Len(units) :
                  i \in 1..Len(written) /\
                  IF ClaimTagged(units[i])
                  THEN written[i] = units[i]
                  ELSE IsSimpleLine(written[i],
                                    (UntaggedBefore(units, i) % num_speakers) + 1,
                                    units[i])

----------------------------------------------------------------------------
\* Claims on the application's handler

\* the policies that need the embedding model
EmbeddingPolicies == {"embeddings_fixed", "embeddings_auto"}

\* a click on a non-blank text, with an embedding policy, that finds no
\* embedding model: the libraries are missing or the model cannot be loaded
ClickWithoutCapability ==
    /\ OnDiarizeClicked
    /\ strip(text) # <<>>
    /\ method_code' \in EmbeddingPolicies
    /\ emb_model' = "None"

\* C13: when an embedding policy is selected and the embedding capability is
\* unavailable, the click ends in a failure that names the requested policy and
\* differs from the generic processing failure; no clustering is attempted and
\* the output shown before stays as it was.
C13_MissingCapabilityNamesPolicy ==
    [][ClickWithoutCapability =>
          /\ messagebox'.title \notin {"", "Blad diarizacji"}
          /\ \E i \in 1..Len(messagebox'.args) : messagebox'.args[i] = method_code'
          /\ ~encoded' /\ n_clusters' = 0 /\ tried' = <<>> /\ labels' = <<>>
          /\ output_text' = output_text]_vars

----------------------------------------------------------------------------
\* The voice diarizations render their aligned segments as lines
\* (legacy_adapter.py line 318, AIstateLight.py lines 1141-1157), and the
\* segment editor parses the lines it is given.

\* at most MaxRenderItems text segments and speaker turns together
MaxRenderItems == 3

\* times, in hundredths of a second: 2.05 s and 65 s
RenderTimes == {205, 6500}
RenderTexts == {"hi", "a: b", " "}

\* the characters of the opaque strings
Chars(t) ==
    CASE t = "hi" -> <<"h", "i">>
      [] t = "a: b" -> <<"a", ":", " ", "b">>
      [] t = "S1" -> <<"S", "1">>
      [] t = "S2" -> <<"S", "2">>
      [] t = "UNKNOWN" -> <<"U", "N", "K", "N", "O", "W", "N">>

\* f"{n:02d}"
Pad2(n) == IF n < 10 THEN <<"0">> \o IntToStr(n) ELSE IntToStr(n)

\* format_time(seconds), AIstateLight.py lines 335-339
format_time(t) ==
    LET total == t \div 100
        m0 == total \div 60
        s == total % 60
        h == m0 \div 60
        m == m0 % 60
    IN  Pad2(h) \o <<":">> \o Pad2(m) \o <<":">> \o Pad2(s)

\* f"{s0:.2f}"
Fixed2(t) == IntToStr(t \div 100) \o <<".">> \o Pad2(t % 100)

\* f"[{s0:.2f}-{s1:.2f}] {best_spk}: {txt}", legacy_adapter.py line 318
LegacyRender(l) ==
    <<"[">> \o Fixed2(l.s0) \o <<"-">> \o Fixed2(l.s1) \o <<"]", " ">>
        \o Chars(l.best_spk) \o <<":", " ">> \o Chars(l.txt)

\* lines 1106-1115: the segments with a text, the text stripped
RECURSIVE WhisperSegments(_)
WhisperSegments(segs) ==
    IF segs = <<>> THEN <<>>
    ELSE (IF StripText(Head(segs)[3]) = ""
          THEN <<>>
          ELSE <<<<Head(segs)[1], Head(segs)[2], StripText(Head(segs)[3])>>>>)
         \o WhisperSegments(Tail(segs))

\* f"[{format_time(s)}-{format_time(e)}] {txt}" with an en dash, line 1116
PlainLine(seg) ==
    <<"[">> \o format_time(seg[1]) \o <<"EN">> \o format_time(seg[2])
        \o <<"]", " ">> \o Chars(seg[3])

\* speaker_map[spk_label] when the loop of lines 1144-1152 is at item i:
\* labels are numbered from 1 in the order of their first appearance
SpeakerMapId(comb, i) ==
    LET first == CHOOSE j \in 1..i :
                    comb[j][1] = comb[i][1] /\ \A k \in 1..(j - 1) : comb[k][1] # comb[i][1]
    IN  Cardinality({comb[k][1] : k \in 1..first})

\* f"[SPK{spk_id}][{format_time(s)}-{format_time(e)}] {txt}", lines 1150-1152
VoiceRender(comb, i) ==
    <<"[", "S", "P", "K">> \o IntToStr(SpeakerMapId(comb, i)) \o <<"]", "[">>
        \o format_time(comb[i][2]) \o <<"EN">> \o format_time(comb[i][3])
        \o <<"]", " ">> \o Chars(comb[i][4])

\* the recognizer delivers one more text segment
RecognizeSegment ==
    /\ render_pc = "input"
    /\ Len(whisper_segments) + Len(speaker_segments) < MaxRenderItems
    /\ \E s \in RenderTimes, e \in RenderTimes, txt \in RenderTexts :
          /\ s <= e
          /\ whisper_segments' = Append(whisper_segments, <<s, e, txt>>)
    /\ UNCHANGED <<speaker_segments, combined, out_lines, align_pc>>
    /\ UNCHANGED <<text_vars, app_vars, codec_vars, render_vars, more_vars>>

\* the diarization engine delivers one more speaker turn
DetectTurn ==
    /\ render_pc = "input"
    /\ Len(whisper_segments) + Len(speaker_segments) < MaxRenderItems
    /\ \E s \in RenderTimes, e \in RenderTimes, spk \in Speakers :
          /\ s <= e
          /\ speaker_segments' = Append(speaker_segments, <<s, e, spk>>)
    /\ UNCHANGED <<whisper_segments, combined, out_lines, align_pc>>
    /\ UNCHANGED <<text_vars, app_vars, codec_vars, render_vars, more_vars>>

\* diarize_voice_whisper_pyannote, legacy_adapter.py lines 301-321
RenderLegacy ==
    /\ render_pc = "input"
    /\ out_lines' = LegacyOutLines(whisper_segments, speaker_segments)
    /\ rendered' = [i \in 1..Len(out_lines') |-> LegacyRender(out_lines'[i])]
    /\ rendered_from' = [i \in 1..Len(out_lines') |->
                            <<out_lines'[i].best_spk, out_lines'[i].s0,
                              out_lines'[i].s1, out_lines'[i].txt>>]
    /\ render_pc' = "legacy"
    /\ UNCHANGED <<whisper_segments, speaker_segments, combined, align_pc, parsed_lines>>
    /\ UNCHANGED <<text_vars, app_vars, codec_vars>>
    /\ UNCHANGED more_vars

\* on_transcribe_and_diarize_voice_clicked from the segments on,
\* AIstateLight.py lines 1100-1165
RenderVoice ==
    /\ render_pc = "input"
    /\ render_pc' = "voice"
    /\ IF whisper_segments = <<>>
       THEN /\ messagebox' = Dialog("Brak segmentow", <<>>)
            /\ UNCHANGED <<combined, rendered, rendered_from, text, output_text>>
       ELSE IF speaker_segments = <<>>
       THEN /\ messagebox' = Dialog("Brak segmentow mowcow", <<>>)
            /\ UNCHANGED <<combined, rendered, rendered_from, text, output_text>>
       ELSE LET segs == WhisperSegments(whisper_segments)
                plain_text_lines == [i \in 1..Len(segs) |-> PlainLine(segs[i])]
                comb == assign_speakers_by_time(segs, speaker_segments)
                diarized_lines == [i \in 1..Len(comb) |-> VoiceRender(comb, i)]
            IN  /\ combined' = comb
                /\ rendered' = diarized_lines
                /\ rendered_from' = comb
                /\ text' = join_newline(plain_text_lines)
                /\ output_text' = join_newline(diarized_lines)
                /\ messagebox' = Dialog("Transkrypcja + diarizacja po glosie", <<>>)
    /\ UNCHANGED <<whisper_segments, speaker_segments, out_lines, align_pc, parsed_lines>>
    /\ UNCHANGED <<num_speakers, method, result_lines, simple_text, tried,
                   n_clusters, labels, raised, encoded, text_pc>>
    /\ UNCHANGED <<HAS_NLP_LIBS, emb_model, method_code>>
    /\ UNCHANGED codec_vars
    /\ UNCHANGED more_vars

\* the segment editor parses every line of the text it shows,
\* segments.py lines 217-218
ParseRendered ==
    /\ render_pc \in {"legacy", "voice"}
    /\ parsed_lines' = [i \in 1..Len(rendered) |-> parse_segment_line(rendered[i])]
    /\ render_pc' = IF render_pc = "legacy" THEN "legacy_parsed" ELSE "voice_parsed"
    /\ UNCHANGED <<rendered, rendered_from>>
    /\ UNCHANGED <<align_vars, text_vars, app_vars, codec_vars>>
    /\ UNCHANGED more_vars

NextRender ==
    RecognizeSegment \/ DetectTurn \/ RenderLegacy \/ RenderVoice \/ ParseRendered

SpecRender == InitAlign /\ [][NextRender]_vars

----------------------------------------------------------------------------
\* Claims on the segment lines

\* the bracketed timestamp pairs of l as the specification describes them:
\* <<p, d, q>> with '[' at p, ']' at q, one separator at d, a run of timestamp
\* characters on each side of it, whitespace only next to the separator
ClaimBrackets(l) ==
    LET opens == {p \in 1..Len(l) : l[p] = "["}
        closes == {q \in 1..Len(l) : l[q] = "]"}
        dashes == {d \in 1..Len(l) : IsDash(l[d])}
    IN  {t \in opens \X dashes \X closes :
            /\ t[1] < t[2] /\ t[2] < t[3]
            /\ LET a == rstrip(SubSeq(l, t[1] + 1, t[2] - 1))
                   b == lstrip(SubSeq(l, t[2] + 1, t[3] - 1))
               IN  /\ a # <<>> /\ \A i \in 1..Len(a) : IsTsChar(a[i])
                   /\ b # <<>> /\ \A i \in 1..Len(b) : IsTsChar(b[i])}

\* the first of them
ClaimFirstBracket(l) ==
    CHOOSE t \in ClaimBrackets(l) : \A u \in ClaimBrackets(l) : t[1] <= u[1]

\* the two timestamps written in the bracket t of l
ClaimWrittenA(l, t) == rstrip(SubSeq(l, t[1] + 1, t[2] - 1))
ClaimWrittenB(l, t) == lstrip(SubSeq(l, t[2] + 1, t[3] - 1))

\* both timestamps of the bracket t of l can be parsed
ClaimParses(l, t) ==
    /\ parse_time_to_seconds(ClaimWrittenA(l, t)) # None
    /\ parse_time_to_seconds(ClaimWrittenB(l, t)) # None

IsSegment(x) ==
    /\ DOMAIN x = {"ts_bracket", "start_s", "end_s", "speaker", "text", "speaker_position"}
    /\ x.speaker_position \in {"before_ts", "after_ts", "none"}

\* C14: parse_segment_line is total: for every line it returns a Segment or
\* None; it returns None for a blank line, for a line without a bracketed
\* timestamp pair and for a (first) bracket whose timestamps cannot be parsed,
\* and a Segment for every other line.
C14_ParseTotal ==
    seg_pc # "input" =>
        LET l == line
            brackets == ClaimBrackets(l)
        IN  /\ segment = None \/ (Len(segment) = 1 /\ IsSegment(segment[1]))
            /\ IsBlank(l) => segment = None
            /\ brackets = {} => segment = None
            /\ brackets # {} =>
                  (segment = None <=> ~ClaimParses(l, ClaimFirstBracket(l)))

\* a line whose first bracket does not parse and whose second one does: None
C14_Witness ==
    /\ seg_pc = "parsed"
    /\ segment = None
    /\ Cardinality(ClaimBrackets(line)) = 2
    /\ \E t \in ClaimBrackets(line) : ClaimParses(line, t)

\* C15: every Segment has start_s <= end_s; bounds written in reverse order
\* are swapped, and {start_s, end_s} is the pair of values written in the
\* bracket.
C15_BoundsOrdered ==
    (seg_pc # "input" /\ segment # None) =>
        LET l == line
            t == ClaimFirstBracket(l)
            a == parse_time_to_seconds(ClaimWrittenA(l, t))[1]
            b == parse_time_to_seconds(ClaimWrittenB(l, t))[1]
            seg == segment[1]
        IN  /\ ~SecondsLess(seg.end_s, seg.start_s)
            /\ {seg.start_s, seg.end_s} = {a, b}
            /\ SecondsLess(b, a) => seg.start_s = b /\ seg.end_s = a
            /\ seg.ts_bracket = SubSeq(l, t[1], t[3])

\* "[5.0-2.0]b:a" yields start 2.0 and end 5.0
C15_Witness ==
    /\ seg_pc = "parsed"
    /\ segment # None
    /\ segment[1].ts_bracket = <<"[", "5", ".", "0", "-", "2", ".", "0", "]">>
    /\ segment[1].start_s = Seconds(<<"2">>, <<>>)
    /\ segment[1].end_s = Seconds(<<"5">>, <<>>)
    /\ segment[1].speaker = <<"b">>
    /\ segment[1].text = <<"a">>

\* the first ':' of s ends a speaker label: at least one and at most maxlen
\* characters before it, none of them ':', '[' or ']'
ClaimLabelEnd(s) == CHOOSE c \in 1..Len(s) : s[c] = ":" /\ \A i \in 1..(c - 1) : s[i] # ":"
ClaimHasLabel(s, maxlen) ==
    /\ \E c \in 1..Len(s) : s[c] = ":"
    /\ LET c == ClaimLabelEnd(s)
       IN  /\ c >= 2 /\ c - 1 <= maxlen
           /\ \A i \in 1..(c - 1) : s[i] \notin {"[", "]"}

\* what follows the first bracket of the trimmed line s, trimmed
ClaimAfterBracket(s) == strip(SubSeq(s, ClaimFirstBracket(s)[3] + 1, Len(s)))

\* the position of the speaker label as the specification gives it, for labels
\* of at most maxlen characters
ClaimPosition(l, maxlen) ==
    LET s == strip(l)
    IN  IF ClaimHasLabel(s, maxlen) /\ ClaimLabelEnd(s) < ClaimFirstBracket(s)[1]
        THEN "before_ts"
        ELSE IF ClaimHasLabel(ClaimAfterBracket(s), maxlen) THEN "after_ts"
        ELSE "none"

ClaimSpeakerPosition(maxlen) ==
    (seg_pc # "input" /\ segment # None) =>
        /\ segment[1].speaker_position = ClaimPosition(line, maxlen)
        /\ segment[1].speaker = <<>> <=> segment[1].speaker_position = "none"

NonSpace(s) == SelectSeq(s, LAMBDA c : ~IsSpace(c))

\* the trimmed line s without its first bracket and without the speaker label
\* found at position pos
ClaimRemainder(s, pos) ==
    LET t == ClaimFirstBracket(s)
        before == SubSeq(s, 1, t[1] - 1)
        after == SubSeq(s, t[3] + 1, Len(s))
    IN  CASE pos = "before_ts" ->
                SubSeq(before, ClaimLabelEnd(s) + 1, Len(before)) \o after
          [] pos = "after_ts" ->
                before \o SubSeq(after, ClaimLabelEnd(after) + 1, Len(after))
          [] OTHER -> before \o after

\* C17: the text of a parsed Segment is the trimmed remainder of the line
\* after removing the timestamp bracket and the speaker label; no other
\* non-whitespace content is discarded, before or after the bracket.
C17_TextIsRemainder ==
    (seg_pc # "input" /\ segment # None) =>
        LET seg == segment[1]
        IN  /\ strip(seg.text) = seg.text
            /\ NonSpace(seg.text) = NonSpace(ClaimRemainder(strip(line), seg.speaker_position))

\* whitespace normalization: runs of whitespace are one space, ends trimmed
ClaimNormalized(s) == strip(CollapseSpaces(JoinBrokenLines(strip(s))))

\* C18: for every line recognized as a Segment x, re-parsing the line that
\* build_new_line renders from x with speaker and text unedited yields a
\* Segment with the same start, end, speaker, text (modulo whitespace
\* normalization) and speaker_position.
C18_RoundTrip ==
    seg_pc = "reparsed" =>
        /\ reparsed # None
        /\ LET x == segment[1]
               y == reparsed[1]
           IN  /\ y.start_s = x.start_s
               /\ y.end_s = x.end_s
               /\ ClaimNormalized(y.speaker) = ClaimNormalized(x.speaker)
               /\ ClaimNormalized(y.text) = ClaimNormalized(x.text)
               /\ y.speaker_position = x.speaker_position

----------------------------------------------------------------------------
\* Claims on the timestamps

\* s with ',' for every '.'
ClaimWithComma(s) == [i \in 1..Len(s) |-> IF s[i] = "." THEN "," ELSE s[i]]

\* the part of s before its first fraction separator and the part after it
ClaimSepAt(s) ==
    IF \E i \in 1..Len(s) : s[i] \in {".", ","}
    THEN CHOOSE i \in 1..Len(s) : s[i] \in {".", ","} /\ \A j \in 1..(i - 1) : s[j] \notin {".", ","}
    ELSE 0
ClaimMain(s) == IF ClaimSepAt(s) = 0 THEN s ELSE SubSeq(s, 1, ClaimSepAt(s) - 1)
ClaimFraction(s) == IF ClaimSepAt(s) = 0 THEN <<>> ELSE SubSeq(s, ClaimSepAt(s) + 1, Len(s))

ClaimDigits(s, lo, hi) ==
    Len(s) >= lo /\ Len(s) <= hi /\ \A i \in 1..Len(s) : IsDigit(s[i])

\* the fraction is absent or (after a separator) has lo..hi digits
ClaimFractionOk(s, lo, hi) ==
    \/ ClaimSepAt(s) = 0
    \/ ClaimDigits(ClaimFraction(s), lo, hi)

\* plain decimal seconds
ClaimIsPlain(s) ==
    ClaimDigits(ClaimMain(s), 1, Len(s)) /\ ClaimFractionOk(s, 1, Len(s))

\* H:MM:SS with an optional fraction of 1 to 3 digits
ClaimIsHms(s) ==
    LET mn == ClaimMain(s)
        n == Len(mn)
    IN  /\ n \in {7, 8}
        /\ mn[n - 2] = ":" /\ mn[n - 5] = ":"
        /\ ClaimDigits(SubSeq(mn, 1, n - 6), 1, 2)
        /\ ClaimDigits(SubSeq(mn, n - 4, n - 3), 2, 2)
        /\ ClaimDigits(SubSeq(mn, n - 1, n), 2, 2)
        /\ ClaimFractionOk(s, 1, 3)

\* MM:SS
ClaimIsMs(s) ==
    /\ Len(s) = 5 /\ s[3] = ":"
    /\ ClaimDigits(SubSeq(s, 1, 2), 2, 2) /\ ClaimDigits(SubSeq(s, 4, 5), 2, 2)

\* 3600*h + 60*m + s and the fraction, right-padded to milliseconds
ClaimClockValue(h, m, s, fraction) ==
    Seconds(IntToStr(3600 * int(h) + 60 * int(m) + int(s)),
            SubSeq(fraction \o <<"0", "0", "0">>, 1, 3))

ClaimValue(s) ==
    LET mn == ClaimMain(s)
        n == Len(mn)
    IN  CASE ClaimIsPlain(s) -> Seconds(mn, ClaimFraction(s))
          [] ClaimIsHms(s) ->
                ClaimClockValue(SubSeq(mn, 1, n - 6), SubSeq(mn, n - 4, n - 3),
                                SubSeq(mn, n - 1, n), ClaimFraction(s))
          [] ClaimIsMs(s) ->
                ClaimClockValue(<<"0">>, SubSeq(s, 1, 2), SubSeq(s, 4, 5), <<>>)

\* C19: a timestamp is accepted as plain decimal seconds, as H:MM:SS with an
\* optional fraction and as MM:SS, with '.' or ',' before the fraction; its
\* value is 3600*h + 60*m + s plus the fraction, and both separators give the
\* same value.
C19_TimestampForms ==
    (ts_pc = "parsed" /\ (ClaimIsPlain(ts_string) \/ ClaimIsHms(ts_string) \/ ClaimIsMs(ts_string))) =>
        /\ seconds = <<ClaimValue(ts_string)>>
        /\ parse_time_to_seconds(ClaimWithComma(ts_string)) = seconds
        /\ parse_time_to_seconds(replace_comma(ts_string)) = seconds

----------------------------------------------------------------------------
\* diarize_audio_with_pyannote (AIstateLight.py lines 394-443), step by step:
\* the process can die between any two steps.

\* the engine returns at most MaxTurns speaker turns
MaxTurns == 2

\* [:4000] of line 425
StderrLimit == 4000

\* the lengths of the converter's diagnostic output, in characters
StderrLengths == {0, 1, StderrLimit, StderrLimit + 1}

\* the turns the engine can find
EngineTurns == {t \in Times \X Times \X Speakers : t[1] <= t[2]}

\* (mutant) the exit status of the converter is not looked at
ConversionFailed_Ignored(returncode) == FALSE

\* line 424
ConversionFailed(returncode) == returncode # 0

\* lines 425-426: the RuntimeError raised for a failed conversion; its message
\* holds the first StderrLimit characters of the decoded stderr
ConversionError(stderr_chars) ==
    [type |-> "RuntimeError", text |-> "ffmpeg error while converting audio",
     stderr_chars |-> Min(stderr_chars, StderrLimit)]

OtherError(type) == [type |-> type, text |-> "", stderr_chars |-> 0]

\* line 407: tempfile.mkdtemp creates the directory, or raises
Mkdtemp ==
    /\ py_pc = "idle"
    /\ mkdtemp_calls' = mkdtemp_calls + 1
    /\ \/ /\ tmpdir_exists' = TRUE
          /\ py_pc' = "created"
          /\ UNCHANGED py_raised
       \/ /\ py_raised' = <<OtherError("OSError")>>
          /\ py_pc' = "raised"
          /\ UNCHANGED tmpdir_exists
    /\ UNCHANGED <<ffmpeg_runs, ffmpeg_proc, pipeline_input, py_segments>>
    /\ UNCHANGED besides_pyannote

\* lines 410-426: the conversion; on a failure the function raises and the
\* finally clause of line 443 removes the directory
RunFfmpeg ==
    /\ py_pc = "created"
    /\ ffmpeg_runs' = ffmpeg_runs + 1
    /\ \/ \* subprocess.run itself raises (no converter installed)
          /\ py_raised' = <<OtherError("FileNotFoundError")>>
          /\ tmpdir_exists' = FALSE
          /\ py_pc' = "raised"
          /\ UNCHANGED ffmpeg_proc
       \/ \E returncode \in {0, 1}, stderr_chars \in StderrLengths :
             /\ ffmpeg_proc' = <<[returncode |-> returncode, stderr_chars |-> stderr_chars]>>
             /\ IF ConversionFailed(returncode)
                THEN /\ py_raised' = <<ConversionError(stderr_chars)>>
                     /\ tmpdir_exists' = FALSE
                     /\ py_pc' = "raised"
                ELSE /\ py_pc' = "converted"
                     /\ UNCHANGED <<py_raised, tmpdir_exists>>
    /\ UNCHANGED <<mkdtemp_calls, pipeline_input, py_segments>>
    /\ UNCHANGED besides_pyannote

\* lines 428-443: the pipeline runs on wav_path; its turns are returned, or
\* its exception leaves the function; line 443 removes the directory
RunPipeline ==
    /\ py_pc = "converted"
    /\ pipeline_input' = "wav_path"
    /\ tmpdir_exists' = FALSE
    /\ \/ \E turns \in SeqsUpTo(EngineTurns, MaxTurns) :
             /\ py_segments' = <<turns>>
             /\ py_pc' = "returned"
             /\ UNCHANGED py_raised
       \/ /\ py_raised' = <<OtherError("Exception")>>
          /\ py_pc' = "raised"
          /\ UNCHANGED py_segments
    /\ UNCHANGED <<mkdtemp_calls, ffmpeg_runs, ffmpeg_proc>>
    /\ UNCHANGED besides_pyannote

\* the process dies (a signal, a native crash of the engine) while the call
\* is between line 407 and line 443: no finally clause runs
ProcessCrash ==
    /\ py_pc \in {"created", "converted"}
    /\ py_pc' = "crashed"
    /\ UNCHANGED <<tmpdir_exists, mkdtemp_calls, ffmpeg_runs, ffmpeg_proc,
                   pipeline_input, py_segments, py_raised>>
    /\ UNCHANGED besides_pyannote

NextPyannote == Mkdtemp \/ RunFfmpeg \/ RunPipeline \/ ProcessCrash

SpecPyannote == InitAlign /\ [][NextPyannote]_vars

----------------------------------------------------------------------------
\* diarize_voice_whisper_pyannote_safe (legacy_adapter.py lines 325-447): the
\* voice diarization in a worker process whose stdout is read as JSON.
\* The stdout is a sequence of pieces: blanks, text that is no JSON, a JSON
\* array, a brace pair that is no JSON, and JSON objects.

\* the worker prints at most MaxStdoutPieces pieces
MaxStdoutPieces == 3

ObjectPieces == {"{}", "full_ok", "full_failed", "no_text", "other_kind", "ok_string"}
StdoutPieces == {" ", "noise", "[1]", "{x}"} \cup ObjectPieces

\* the keys "kind", "text", "ok" of the JSON object a piece stands for:
\* None for a missing key, <<v>> for the value v
JsonObject(piece) ==
    CASE piece = "{}" -> [kind |-> None, text |-> None, ok |-> None]
      [] piece = "full_ok" ->
            [kind |-> <<"diarized_voice">>, text |-> <<"lines">>, ok |-> <<"true">>]
      [] piece = "full_failed" ->
            [kind |-> <<"diarized_voice">>, text |-> <<"message">>, ok |-> <<"false">>]
      [] piece = "no_text" ->
            [kind |-> <<"diarized_voice">>, text |-> None, ok |-> <<"true">>]
      [] piece = "other_kind" ->
            [kind |-> <<"error">>, text |-> <<"message">>, ok |-> <<"false">>]
      [] piece = "ok_string" ->
            [kind |-> <<"diarized_voice">>, text |-> <<"lines">>, ok |-> <<"\"yes\"">>]

\* the piece opens with '{' and closes with '}'
IsBracePiece(piece) == piece \in ObjectPieces \cup {"{x}"}

\* out.strip() on pieces
RECURSIVE StripPieces(_)
StripPieces(out) ==
    IF out # <<>> /\ Head(out) = " " THEN StripPieces(Tail(out))
    ELSE IF out # <<>> /\ out[Len(out)] = " " THEN StripPieces(SubSeq(out, 1, Len(out) - 1))
    ELSE out

\* json.loads(s): <<the one JSON value that s is>>, None when it raises
json_loads(s) ==
    IF Len(s) = 1 /\ s[1] \in ObjectPieces \cup {"[1]"} THEN <<s[1]>> ELSE None

\* lines 424-431: the text from the first '{' of stdout to its end, when
\* stdout ends with '}', is given to json.loads
RecoverJson(out_str) ==
    IF out_str # <<>> /\ IsBracePiece(out_str[Len(out_str)])
    THEN LET first == CHOOSE i \in 1..Len(out_str) :
                         /\ IsBracePiece(out_str[i])
                         /\ \A j \in 1..(i - 1) : ~IsBracePiece(out_str[j])
         IN  json_loads(SubSeq(out_str, first, Len(out_str)))
    ELSE None

\* the dicts of lines 405, 417 and 447
FailDict(fail_text) ==
    [kind |-> <<"diarized_voice">>, text |-> <<fail_text>>, ok |-> <<"false">>]

\* lines 436-437
SetDefaults(data) ==
    [kind |-> IF data.kind = None THEN <<"diarized_voice">> ELSE data.kind,
     text |-> data.text,
     ok |-> IF data.ok = None THEN <<"true">> ELSE data.ok]

\* lines 371-447; exit is how the worker ended, out its stdout
diarize_voice_whisper_pyannote_safe(exit, out) ==
    IF ~exit.started THEN FailDict("[Voice diarization exception]")
    ELSE IF exit.returncode # 0 THEN FailDict("[Voice diarization failed]")
    ELSE LET out_str == StripPieces(out)
             loaded == json_loads(out_str)
             data == IF loaded # None THEN loaded ELSE RecoverJson(out_str)
         IN  IF out_str = <<>> THEN FailDict("Worker returned no JSON on stdout.")
             ELSE IF data = None THEN FailDict("[Voice diarization exception]")
             ELSE IF data[1] \notin ObjectPieces
             THEN [kind |-> <<"diarized_voice">>, text |-> data, ok |-> <<"true">>]
             ELSE SetDefaults(JsonObject(data[1]))

\* the worker prints one more piece
WorkerPrints ==
    /\ safe_pc = "input"
    /\ Len(worker_stdout) < MaxStdoutPieces
    /\ \E piece \in StdoutPieces : worker_stdout' = Append(worker_stdout, piece)
    /\ UNCHANGED <<worker_exit, safe_result, safe_pc>>
    /\ UNCHANGED besides_worker

\* the call: the worker could not be started, or it ended with returncode
CallSafe ==
    /\ safe_pc = "input"
    /\ \E started \in BOOLEAN, returncode \in {0, 1} :
          /\ started \/ (returncode = 1 /\ worker_stdout = <<>>)
          /\ worker_exit' = <<[started |-> started, returncode |-> returncode]>>
          /\ safe_result' = <<diarize_voice_whisper_pyannote_safe(worker_exit'[1], worker_stdout)>>
    /\ safe_pc' = "returned"
    /\ UNCHANGED worker_stdout
    /\ UNCHANGED besides_worker

NextWorker == WorkerPrints \/ CallSafe

SpecWorker == InitAlign /\ [][NextWorker]_vars

----------------------------------------------------------------------------
\* diarize_text_simple over units: the lines or their sentences, merged or
\* not, labelled in blocks or in turns

\* a text has at most MaxUnitLines lines
MaxUnitLines == 3

\* the lines of the texts: a short line, a line of two sentences, a line of
\* MergeThreshold characters
UnitLines ==
    { <<"h", "i">>, <<"a", ".", " ", "b", "?">>, Letters(MergeThreshold) }

\* the methods of the calls on units
UnitMethods ==
    {{"block"}, {"merge", "block"}, {"sentence", "block"}, {"merge"},
     {"sentence", "merge", "alternate"}}

\* one more line of the input text
AddLine ==
    /\ text_pc = "input"
    /\ Len(splitlines(text)) < MaxUnitLines
    /\ \E ln \in UnitLines : text' = text \o ln \o <<"\n">>
    /\ UNCHANGED <<num_speakers, method, result_lines, simple_text, tried,
                   n_clusters, labels, raised, encoded, text_pc>>
    /\ UNCHANGED <<align_vars, app_vars, codec_vars, render_vars, more_vars>>

\* diarize_text_simple(text, speakers, method)["text"] with a method on units
DiarizeTextUnits ==
    /\ text_pc = "input"
    /\ \E speakers \in 1..MaxSpeakers, m \in UnitMethods :
          /\ num_speakers' = speakers
          /\ method' = m
          /\ simple_text' = diarize_text_simple(text, speakers, m)
    /\ text_pc' = "simple"
    /\ UNCHANGED <<text, result_lines, tried, n_clusters, labels, raised, encoded>>
    /\ UNCHANGED <<align_vars, app_vars, codec_vars, render_vars, more_vars>>

NextUnits ==
    \/ AddLine
    \/ DiarizeTextUnits

SpecUnits == InitText /\ [][NextUnits]_vars

----------------------------------------------------------------------------
\* SpeakerNamesPanel (ui/segments.py lines 651-716): the speakers of the two
\* panes, one edit field per speaker, and the renaming of the labels.
\* The labels of the panes and the names typed are single letters.

\* the two panes hold at most MaxPaneLines lines together
MaxPaneLines == 2

\* the lines of the panes: a label before the text, after the timestamp,
\* before the timestamp, a text that holds "]A:", and a line without a label
PaneLines ==
    { <<"A", ":", " ", "x">>,
      <<"[", "1", "-", "2", "]", " ", "B", ":", " ", "x">>,
      <<"C", ":", " ", "[", "1", "-", "2", "]", " ", "x">>,
      <<"[", "1", "-", "2", "]", " ", "B", ":", " ", "z", "]", "A", ":", "y">>,
      <<"x">> }

\* the names typed into the edit fields, <<>> for a field left empty
NewNames == {<<>>, <<"A">>, <<"B">>, <<"C">>, <<"J">>}

\* the order of the characters of the labels, as sorted() orders them
LabelOrder == <<"A", "B", "C", "J">>

\* lines 655-661 for one line: seg is parse_segment_line(line) and m is
\* _SPK_PREFIX_RE.match(line.strip()); <<spk>>, None when nothing is added
PickSpeaker(seg, m) ==
    IF seg # None /\ seg[1].speaker # <<>> THEN <<seg[1].speaker>>
    ELSE IF m.ok THEN <<strip(m.spk)>>
    ELSE None

LineSpeaker(ln) == PickSpeaker(parse_segment_line(ln), SpkMatch(strip(ln)))

\* the values of the options that are not None
Somes(options) == {o[1] : o \in options \ {None}}

\* set(_collect_speakers_from_text(text))
collect_speakers_from_text(txt) ==
    LET ls == splitlines(txt)
    IN  Somes({LineSpeaker(ls[i]) : i \in 1..Len(ls)})

\* sorted(speakers)
SortedSpeakers(speakers) ==
    SelectSeq([r \in 1..Len(LabelOrder) |-> <<LabelOrder[r]>>],
              LAMBDA spk : spk \in speakers)

\* one empty field per speaker, lines 677-682
EmptyFields(speakers_list) ==
    [i \in 1..Len(speakers_list) |-> [spk |-> speakers_list[i], new |-> <<>>]]

\* refresh(), lines 664-682: the speakers of the two panes, sorted
RefreshedFields(left_text, right_text) ==
    EmptyFields(SortedSpeakers(
        UNION {collect_speakers_from_text(t) : t \in {left_text, right_text}}))

\* lines 685-689: the fields with a name that differs from the label
NamesMapping(fields) ==
    SelectSeq(fields, LAMBDA f : f.new # <<>> /\ f.new # f.spk)

\* old stands at p and ':' follows it
LabelAt(out, p, old) ==
    /\ p + Len(old) <= Len(out)
    /\ SubSeq(out, p, p + Len(old) - 1) = old
    /\ out[p + Len(old)] = ":"

\* out with new in place of old wherever old starts at a position of starts
ReplaceAt(out, starts, old, new) ==
    LET piece(i) == IF i \in starts THEN new
                    ELSE IF \E p \in starts : p < i /\ i < p + Len(old) THEN <<>>
                    ELSE <<out[i]>>
        RECURSIVE pieces(_)
        pieces(i) == IF i > Len(out) THEN <<>> ELSE piece(i) \o pieces(i + 1)
    IN  pieces(1)

\* re.sub(rf"(^\s*){old}(?=:)", ..., flags=re.MULTILINE), lines 699-704:
\* old after nothing but whitespace since the start of a line
SubAtLineStart(out, old, new) ==
    LET starts == {p \in 1..Len(out) :
                      /\ LabelAt(out, p, old)
                      /\ \E q \in 1..p :
                            /\ q = 1 \/ out[q - 1] = "\n"
                            /\ IsSpaceRun(out, q, p - 1)}
    IN  ReplaceAt(out, starts, old, new)

\* re.sub(rf"(\]\s*){old}(?=:)", ...), lines 705-709: old after a ']' and
\* whitespace, wherever it stands
SubAfterBracket(out, old, new) ==
    LET starts == {p \in 1..Len(out) :
                      /\ LabelAt(out, p, old)
                      /\ \E j \in 1..(p - 1) :
                            out[j] = "]" /\ IsSpaceRun(out, j + 1, p - 1)}
    IN  ReplaceAt(out, starts, old, new)

\* _apply_to_text(text), lines 695-710: the entries of the mapping are
\* applied one after the other, each to the result of the one before
RECURSIVE ApplyToText(_, _)
ApplyToText(txt, mapping) ==
    IF mapping = <<>> THEN txt
    ELSE LET old == Head(mapping).spk
             new == Head(mapping).new
         IN  ApplyToText(SubAfterBracket(SubAtLineStart(txt, old, new), old, new),
                         Tail(mapping))

\* a line is loaded into one of the panes
LoadPaneLine ==
    /\ names_pc = "edit"
    /\ Len(splitlines(left)) + Len(splitlines(right)) < MaxPaneLines
    /\ \E ln \in PaneLines :
          \/ left' = left \o ln \o <<"\n">> /\ UNCHANGED right
          \/ right' = right \o ln \o <<"\n">> /\ UNCHANGED left
    /\ UNCHANGED <<edit_fields, applied, names_pc>>
    /\ UNCHANGED besides_names

\* refresh(), lines 664-682
Refresh ==
    /\ names_pc = "edit"
    /\ edit_fields' = RefreshedFields(left, right)
    /\ UNCHANGED <<left, right, applied, names_pc>>
    /\ UNCHANGED besides_names

\* the user types a name into one of the fields
TypeName ==
    /\ names_pc = "edit"
    /\ \E i \in 1..Len(edit_fields), new \in NewNames :
          edit_fields' = [edit_fields EXCEPT ![i].new = new]
    /\ UNCHANGED <<left, right, applied, names_pc>>
    /\ UNCHANGED besides_names

\* apply(), lines 684-716
Apply ==
    /\ names_pc = "edit"
    /\ LET mapping == NamesMapping(edit_fields)
       IN  /\ applied' = <<[left |-> left, right |-> right, mapping |-> mapping]>>
           /\ IF mapping = <<>>
              THEN \* lines 691-693
                   UNCHANGED <<left, right, edit_fields>>
              ELSE /\ left' = ApplyToText(left, mapping)
                   /\ right' = ApplyToText(right, mapping)
                   /\ edit_fields' = RefreshedFields(left', right')
    /\ names_pc' = "applied"
    /\ UNCHANGED besides_names

NextNames == LoadPaneLine \/ Refresh \/ TypeName \/ Apply

SpecNames == InitAlign /\ [][NextNames]_vars

----------------------------------------------------------------------------
\* The audio handlers of DiarizationApp (AIstateLight.py): the selection of
\* the speech model, the transcription, and the transcription with the
\* diarization by voice.  text is the content of the left pane (input_text),
\* output_text the content of the right pane.

\* at most MaxVoiceEvents clicks and selections
MaxVoiceEvents == 3

\* the values of the combobox that are used, line 599
WhisperModelNames == {"small", "base"}

\* what model.transcribe returns under "segments"
VoiceSegs ==
    { <<>>,
      << <<205, 6500, "hi">> >>,
      << <<205, 205, " ">>, <<205, 6500, "a: b">> >> }

\* what diarize_audio_with_pyannote returns
VoiceTurns == { <<>>, << <<205, 6500, "S1">> >>, << <<6500, 6500, "S2">> >> }

\* how model.transcribe ends: it raises, or returns a result with segments
TranscribeResults ==
    {[raised |-> TRUE, segments |-> <<>>]}
    \cup {[raised |-> FALSE, segments |-> segs] : segs \in VoiceSegs}

\* how diarize_audio_with_pyannote ends: it raises, or returns the turns
DiarizeResults ==
    {[raised |-> TRUE, turns |-> <<>>]}
    \cup {[raised |-> FALSE, turns |-> turns] : turns \in VoiceTurns}

\* (mutant) the model is loaded on every call
ensure_whisper_model_loaded_NoCache(can_load) ==
    LET model_name == whisper_model_var
    IN  IF ~HAS_WHISPER
        THEN [model |-> None, whisper_model |-> whisper_model,
              name |-> current_whisper_model_name, loads |-> whisper_loads,
              dialog |-> Dialog("Brak Whispera", <<>>)]
        ELSE IF can_load
        THEN [model |-> <<model_name>>, whisper_model |-> <<model_name>>,
              name |-> <<model_name>>, loads |-> whisper_loads + 1,
              dialog |-> NoDialog]
        ELSE [model |-> None, whisper_model |-> whisper_model,
              name |-> current_whisper_model_name, loads |-> whisper_loads,
              dialog |-> Dialog("Blad ladowania Whisper", <<model_name, "e">>)]

\* ensure_whisper_model_loaded(app), lines 302-332: what it returns, what it
\* leaves in app.whisper_model and app.current_whisper_model_name, the number
\* of loads made so far, and the dialog it shows; can_load: whisper.load_model
\* returns
ensure_whisper_model_loaded(can_load) ==
    LET model_name == whisper_model_var
    IN  IF ~HAS_WHISPER
        THEN [model |-> None, whisper_model |-> whisper_model,
              name |-> current_whisper_model_name, loads |-> whisper_loads,
              dialog |-> Dialog("Brak Whispera", <<>>)]
        ELSE IF whisper_model # None /\ current_whisper_model_name = <<model_name>>
        THEN [model |-> whisper_model, whisper_model |-> whisper_model,
              name |-> current_whisper_model_name, loads |-> whisper_loads,
              dialog |-> NoDialog]
        ELSE IF can_load
        THEN [model |-> <<model_name>>, whisper_model |-> <<model_name>>,
              name |-> <<model_name>>, loads |-> whisper_loads + 1,
              dialog |-> NoDialog]
        ELSE [model |-> None, whisper_model |-> whisper_model,
              name |-> current_whisper_model_name, loads |-> whisper_loads,
              dialog |-> Dialog("Blad ladowania Whisper", <<model_name, "e">>)]

\* ensure_pyannote_pipeline_loaded(app), lines 344-391: what it returns, what
\* it leaves in app.pyannote_pipeline and in the environment, and the dialog
\* it shows; can_load: Pipeline.from_pretrained returns
ensure_pyannote_pipeline_loaded(can_load) ==
    LET token == IF pyannote_token_var # "" THEN <<pyannote_token_var>> ELSE hf_token_env
    IN  IF ~HAS_PYANNOTE
        THEN [pipeline |-> None, pyannote_pipeline |-> pyannote_pipeline,
              env |-> hf_token_env, dialog |-> Dialog("Brak pyannote.audio", <<>>)]
        ELSE IF pyannote_pipeline # None
        THEN [pipeline |-> pyannote_pipeline, pyannote_pipeline |-> pyannote_pipeline,
              env |-> hf_token_env, dialog |-> NoDialog]
        ELSE IF token = None
        THEN [pipeline |-> None, pyannote_pipeline |-> pyannote_pipeline,
              env |-> hf_token_env, dialog |-> Dialog("Brak tokena HuggingFace", <<>>)]
        ELSE IF can_load
        THEN [pipeline |-> <<"pipeline">>, pyannote_pipeline |-> <<"pipeline">>,
              env |-> token, dialog |-> NoDialog]
        ELSE [pipeline |-> None, pyannote_pipeline |-> pyannote_pipeline,
              env |-> token, dialog |-> Dialog("Blad ladowania pyannote", <<"e">>)]

\* "\n".join(plain_text_lines), lines 1106-1116, and "\n".join(lines), lines
\* 1053-1060
PlainText(segs) ==
    LET wsegs == WhisperSegments(segs)
    IN  join_newline([i \in 1..Len(wsegs) |-> PlainLine(wsegs[i])])

\* "\n".join(diarized_lines), lines 1139-1152
DiarizedText(segs, turns) ==
    LET comb == assign_speakers_by_time(WhisperSegments(segs), turns)
    IN  join_newline([i \in 1..Len(comb) |-> VoiceRender(comb, i)])

\* what a handler leaves: the event for the trace, the two panes, the dialog
HandlerExit(event, left_pane, right_pane, dialog) ==
    [event |-> event, text |-> left_pane, output_text |-> right_pane, dialog |-> dialog]

\* (mutant) the transcript is written to the left pane as soon as it is there
VoiceAfterTranscription_WritesEarly(segs, pipeline, dialog, diarized) ==
    IF pipeline = None
    THEN HandlerExit("voice_no_pipeline", PlainText(segs), output_text, dialog)
    ELSE IF diarized.raised
    THEN HandlerExit("voice_diarization_failed", PlainText(segs), output_text,
                     Dialog("Blad diarizacji po glosie", <<"e">>))
    ELSE IF diarized.turns = <<>>
    THEN HandlerExit("voice_no_turns", PlainText(segs), output_text,
                     Dialog("Brak segmentow mowcow", <<>>))
    ELSE HandlerExit("voice_done", PlainText(segs), DiarizedText(segs, diarized.turns),
                     Dialog("Transkrypcja + diarizacja po glosie", <<>>))

\* lines 1118-1165: the handler from the pipeline on; pipeline and dialog are
\* what ensure_pyannote_pipeline_loaded returned and showed, diarized is
\* how diarize_audio_with_pyannote ended
VoiceAfterTranscription(segs, pipeline, dialog, diarized) ==
    IF pipeline = None
    THEN HandlerExit("voice_no_pipeline", text, output_text, dialog)
    ELSE IF diarized.raised
    THEN HandlerExit("voice_diarization_failed", text, output_text,
                     Dialog("Blad diarizacji po glosie", <<"e">>))
    ELSE IF diarized.turns = <<>>
    THEN HandlerExit("voice_no_turns", text, output_text,
                     Dialog("Brak segmentow mowcow", <<>>))
    ELSE HandlerExit("voice_done", PlainText(segs), DiarizedText(segs, diarized.turns),
                     Dialog("Transkrypcja + diarizacja po glosie", <<>>))

\* the construction of the application, lines 483-495, under the imports of
\* lines 145-160 and the environment of the process
InitVoice ==
    /\ AlignIdle /\ TextIdle
    /\ HAS_NLP_LIBS = TRUE /\ AppIdle /\ CodecIdle /\ RenderIdle
    /\ PyannoteIdle /\ WorkerIdle /\ NamesIdle
    /\ HAS_WHISPER \in BOOLEAN
    /\ HAS_PYANNOTE \in BOOLEAN
    /\ audio_path = None
    /\ whisper_model_var = "small"
    /\ whisper_model = None
    /\ current_whisper_model_name = None
    /\ whisper_loads = 0
    /\ pyannote_pipeline = None
    /\ pyannote_token_var = ""
    /\ hf_token_env \in {None, <<"token">>}
    /\ voice_trace = <<>>

\* what the handlers of this part leave alone in the first parts
VoiceFrame ==
    /\ UNCHANGED <<num_speakers, method, result_lines, simple_text, tried,
                   n_clusters, labels, raised, encoded, text_pc>>
    /\ UNCHANGED <<HAS_NLP_LIBS, emb_model, method_code>>
    /\ UNCHANGED <<HAS_WHISPER, HAS_PYANNOTE>>
    /\ UNCHANGED besides_voice

\* on_load_audio_clicked, lines 1004-1016, with a file chosen
OnLoadAudioClicked ==
    /\ audio_path = None
    /\ audio_path' = <<"a.wav">>
    /\ UNCHANGED <<text, output_text, messagebox, whisper_model_var, whisper_model,
                   current_whisper_model_name, whisper_loads, pyannote_pipeline,
                   pyannote_token_var, hf_token_env, voice_trace>>
    /\ VoiceFrame

\* the user types a token into the settings, or clears it
EnterToken ==
    /\ \E token \in {"", "token"} :
          /\ token # pyannote_token_var
          /\ pyannote_token_var' = token
    /\ UNCHANGED <<text, output_text, messagebox, audio_path, whisper_model_var,
                   whisper_model, current_whisper_model_name, whisper_loads,
                   pyannote_pipeline, hf_token_env, voice_trace>>
    /\ VoiceFrame

\* the user selects a model name in the combobox, line 603, which calls
\* on_whisper_model_change, lines 865-868
OnWhisperModelChange ==
    /\ Len(voice_trace) < MaxVoiceEvents
    /\ \E name \in WhisperModelNames : whisper_model_var' = name
    /\ current_whisper_model_name' = None
    /\ voice_trace' = Append(voice_trace, [event |-> "selected", loads |-> whisper_loads])
    /\ UNCHANGED <<text, output_text, messagebox, audio_path, whisper_model,
                   whisper_loads, pyannote_pipeline, pyannote_token_var, hf_token_env>>
    /\ VoiceFrame

\* on_transcribe_audio_clicked, lines 1020-1070
OnTranscribeAudioClicked ==
    /\ Len(voice_trace) < MaxVoiceEvents
    /\ \E can_load \in BOOLEAN, result \in TranscribeResults :
          LET ensured == ensure_whisper_model_loaded(can_load)
              exit ==
                  IF audio_path = None
                  THEN HandlerExit("no_audio", text, output_text, Dialog("Brak audio", <<>>))
                  ELSE IF ensured.model = None
                  THEN HandlerExit("no_model", text, output_text, ensured.dialog)
                  ELSE IF result.raised
                  THEN HandlerExit("transcribe_failed", text, output_text,
                                   Dialog("Blad transkrypcji", <<"e">>))
                  ELSE IF result.segments = <<>>
                  THEN HandlerExit("no_segments", text, output_text,
                                   Dialog("Brak segmentow", <<>>))
                  ELSE HandlerExit("transcribed", PlainText(result.segments), output_text,
                                   Dialog("Transkrypcja zakonczona", <<>>))
          IN  /\ whisper_model' = IF audio_path = None THEN whisper_model
                                  ELSE ensured.whisper_model
              /\ current_whisper_model_name' =
                    IF audio_path = None THEN current_whisper_model_name ELSE ensured.name
              /\ whisper_loads' = IF audio_path = None THEN whisper_loads ELSE ensured.loads
              /\ text' = exit.text
              /\ output_text' = exit.output_text
              /\ messagebox' = exit.dialog
              /\ voice_trace' = Append(voice_trace,
                                       [event |-> exit.event, loads |-> whisper_loads'])
    /\ UNCHANGED <<audio_path, whisper_model_var, pyannote_pipeline,
                   pyannote_token_var, hf_token_env>>
    /\ VoiceFrame

\* on_transcribe_and_diarize_voice_clicked, lines 1073-1165
OnTranscribeAndDiarizeVoiceClicked ==
    /\ Len(voice_trace) < MaxVoiceEvents
    /\ \E can_load \in BOOLEAN, result \in TranscribeResults,
          can_load_pipeline \in BOOLEAN, diarized \in DiarizeResults :
          LET ensured == ensure_whisper_model_loaded(can_load)
              transcribed == audio_path # None /\ ensured.model # None
                                /\ ~result.raised /\ result.segments # <<>>
              piped == ensure_pyannote_pipeline_loaded(can_load_pipeline)
              exit ==
                  IF audio_path = None
                  THEN HandlerExit("voice_no_audio", text, output_text,
                                   Dialog("Brak audio", <<>>))
                  ELSE IF ensured.model = None
                  THEN HandlerExit("voice_no_model", text, output_text, ensured.dialog)
                  ELSE IF result.raised
                  THEN HandlerExit("voice_transcribe_failed", text, output_text,
                                   Dialog("Blad transkrypcji", <<"e">>))
                  ELSE IF result.segments = <<>>
                  THEN HandlerExit("voice_no_segments", text, output_text,
                                   Dialog("Brak segmentow", <<>>))
                  ELSE VoiceAfterTranscription(result.segments, piped.pipeline, piped.dialog,
                                               diarized)
          IN  /\ whisper_model' = IF audio_path = None THEN whisper_model
                                  ELSE ensured.whisper_model
              /\ current_whisper_model_name' =
                    IF audio_path = None THEN current_whisper_model_name ELSE ensured.name
              /\ whisper_loads' = IF audio_path = None THEN whisper_loads ELSE ensured.loads
              /\ pyannote_pipeline' = IF transcribed THEN piped.pyannote_pipeline
                                      ELSE pyannote_pipeline
              /\ hf_token_env' = IF transcribed THEN piped.env ELSE hf_token_env
              /\ text' = exit.text
              /\ output_text' = exit.output_text
              /\ messagebox' = exit.dialog
              /\ voice_trace' = Append(voice_trace,
                                       [event |-> exit.event, loads |-> whisper_loads'])
    /\ UNCHANGED <<audio_path, whisper_model_var, pyannote_token_var>>
    /\ VoiceFrame

NextVoice ==
    \/ OnLoadAudioClicked
    \/ EnterToken
    \/ OnWhisperModelChange
    \/ OnTranscribeAudioClicked
    \/ OnTranscribeAndDiarizeVoiceClicked

SpecVoice == InitVoice /\ [][NextVoice]_vars

----------------------------------------------------------------------------
\* Claims on the rendered lines

\* the start and end written in the bracket of the line l
ClaimWrittenStart(l) == parse_time_to_seconds(ClaimWrittenA(l, ClaimFirstBracket(l)))
ClaimWrittenEnd(l) == parse_time_to_seconds(ClaimWrittenB(l, ClaimFirstBracket(l)))

\* the line i is recognized with the bounds written in it
ClaimRecognized(i) ==
    /\ parsed_lines[i] # None
    /\ ClaimBrackets(rendered[i]) # {}
    /\ <<parsed_lines[i][1].start_s>> = ClaimWrittenStart(rendered[i])
    /\ <<parsed_lines[i][1].end_s>> = ClaimWrittenEnd(rendered[i])

\* the line i is parsed into the speaker and the text it was written for
ClaimSameSpeakerAndText(i) ==
    /\ parsed_lines[i][1].speaker = Chars(rendered_from[i][1])
    /\ parsed_lines[i][1].text = Chars(rendered_from[i][4])

\* C20: every line rendered for an aligned (speaker, start, end, text)
\* segment is recognized by parse_segment_line, which returns a Segment with
\* that speaker, that text, and the start and end written in the line.
C20_RenderedLinesReparse ==
    render_pc \in {"legacy_parsed", "voice_parsed"} =>
        \A i \in 1..Len(rendered) :
            ClaimRecognized(i) /\ ClaimSameSpeakerAndText(i)

----------------------------------------------------------------------------
\* Claims on the call of the diarization engine

\* the call has ended
PyCallEnded == py_pc \in {"returned", "raised", "crashed"}

\* C21: the temporary directory of the conversion no longer exists once the
\* call has ended, on every exit path (return, converter failure, engine
\* exception, crash of the process); one temporary location is created per
\* call and at most one conversion runs into it, exactly one when the call
\* returns.
C21_TmpdirRemovedOnEveryPath ==
    PyCallEnded =>
        /\ ~tmpdir_exists
        /\ mkdtemp_calls = 1
        /\ ffmpeg_runs <= 1
        /\ py_pc = "returned" => ffmpeg_runs = 1

\* the converter exited with a non-zero status
ConverterFailed == ffmpeg_proc # None /\ ffmpeg_proc[1].returncode # 0

\* the engine ran only after a successful conversion, on the converted file
ClaimEngineAfterConversion ==
    /\ pipeline_input \in {"none", "wav_path"}
    /\ pipeline_input # "none" => (ffmpeg_proc # None /\ ffmpeg_proc[1].returncode = 0)
    /\ py_segments # None => pipeline_input = "wav_path"

\* the call failed with the conversion error, which carries `chars`
\* characters of the diagnostic output; no engine, no turns
ClaimConversionFailure(chars) ==
    /\ py_pc = "raised"
    /\ py_raised # None
    /\ py_raised[1].type = "RuntimeError"
    /\ py_raised[1].stderr_chars = chars
    /\ pipeline_input = "none"
    /\ py_segments = None

\* C22 as stated: when the converter exits non-zero the call fails with an
\* error that carries the converter's diagnostic output, the engine is never
\* invoked (it runs only after a successful conversion, on the converted
\* file) and no speaker turns are returned.
C22_ConversionFailureCarriesOutput ==
    /\ ClaimEngineAfterConversion
    /\ ConverterFailed => ClaimConversionFailure(ffmpeg_proc[1].stderr_chars)

\* C22, amended: the error carries the first 4000 characters of the output.
C22_ConversionFailureCarriesPrefix ==
    /\ ClaimEngineAfterConversion
    /\ ConverterFailed =>
          ClaimConversionFailure(Min(ffmpeg_proc[1].stderr_chars, StderrLimit))

\* the converter failed with an output longer than the limit
C22_Witness ==
    /\ ConverterFailed
    /\ ffmpeg_proc[1].stderr_chars > StderrLimit
    /\ py_pc = "raised"
    /\ py_raised[1].stderr_chars = StderrLimit

----------------------------------------------------------------------------
\* Claims on the worker process

\* the worker printed something that json.loads accepts
ClaimPrintedJson ==
    \E i \in 1..Len(worker_stdout) : worker_stdout[i] \in ObjectPieces \cup {"[1]"}

\* C23: however the worker ends (not started, non-zero exit, nothing on
\* stdout, no JSON, JSON that is no object, a JSON object) the call returns a
\* dict with kind = "diarized_voice", a text and a boolean ok; ok is false
\* whenever the worker exited non-zero or produced no parseable JSON.
C23_WorkerFailuresContained ==
    safe_pc = "returned" =>
        /\ safe_result # None
        /\ safe_result[1].kind = <<"diarized_voice">>
        /\ safe_result[1].text # None
        /\ safe_result[1].ok \in {<<"true">>, <<"false">>}
        /\ (~worker_exit[1].started \/ worker_exit[1].returncode # 0 \/ ~ClaimPrintedJson)
              => safe_result[1].ok = <<"false">>

----------------------------------------------------------------------------
\* Claims on the units of diarize_text_simple

\* the units of the call, before and after the merge pre-pass
ClaimUnits == SimpleUnits(SimpleLines(strip(text)), method)
ClaimLabelled == MergedUnits(SimpleLines(strip(text)), method)

\* the lines of the result
ClaimOutLines == splitlines(simple_text)

\* the speaker number and the unit of the i-th line, read from "SPK<n>: <unit>"
ClaimColonAt(i) ==
    CHOOSE c \in 1..Len(ClaimOutLines[i]) :
        ClaimOutLines[i][c] = ":" /\ \A j \in 1..(c - 1) : ClaimOutLines[i][j] # ":"
ClaimSpk(i) ==
    CHOOSE n \in 1..9 :
        SubSeq(ClaimOutLines[i], 1, ClaimColonAt(i) - 1) = <<"S", "P", "K">> \o IntToStr(n)
ClaimUnitOf(i) ==
    SubSeq(ClaimOutLines[i], ClaimColonAt(i) + 2, Len(ClaimOutLines[i]))

\* the number of units the block variant gave to speaker n
ClaimRunSize(n) == Cardinality({i \in 1..Len(ClaimOutLines) : ClaimSpk(i) = n})
ClaimRuns == {ClaimSpk(i) : i \in 1..Len(ClaimOutLines)}

\* a call of the block variant has returned
ClaimBlockCall ==
    /\ text_pc = "simple"
    /\ IsBlock(method) /\ ~IsAlternate(method) /\ ~IsKeep(method)

\* the runs are contiguous, start at SPK1, rise by one and there are
\* min(N, U) of them
ClaimBlockRuns ==
    LET U == Len(ClaimLabelled)
        N == num_speakers
    IN  /\ Len(ClaimOutLines) = U
        /\ \A i \in 1..U : ClaimUnitOf(i) = ClaimLabelled[i]
        /\ U > 0 => ClaimSpk(1) = 1
        /\ \A i \in 1..(U - 1) : ClaimSpk(i + 1) - ClaimSpk(i) \in {0, 1}
        /\ \A i \in 1..U : ClaimSpk(i) <= N
        /\ Cardinality(ClaimRuns) = Min(N, U)

\* C24 (as stated): the block variant with N speakers divides the U units
\* into exactly min(N, U) contiguous runs SPK1, SPK2, ... in increasing
\* order, and the sizes of two runs differ by at most floor(U/N) units.
C24_BlockRunsBalanced ==
    ClaimBlockCall =>
        /\ ClaimBlockRuns
        /\ \A a, b \in ClaimRuns :
              ClaimRunSize(a) - ClaimRunSize(b) <= Len(ClaimLabelled) \div num_speakers

\* C24 (amended): the same runs; every run but the last has
\* max(1, floor(U/N)) units and the last run has the remaining units, at
\* most N - 1 more than the others.
C24_BlockRunsFillThenRest ==
    ClaimBlockCall =>
        /\ ClaimBlockRuns
        /\ LET block == Max(1, Len(ClaimLabelled) \div num_speakers)
               last == Cardinality(ClaimRuns)
           IN  \A a \in ClaimRuns :
                  IF a < last THEN ClaimRunSize(a) = block
                  ELSE ClaimRunSize(a) - block \in 0..(num_speakers - 1)

\* five units in three runs of 1, 1 and 3 units
C24_Witness ==
    /\ ClaimBlockCall
    /\ num_speakers = 3
    /\ Len(ClaimLabelled) = 5
    /\ ClaimRunSize(1) = 1 /\ ClaimRunSize(2) = 1 /\ ClaimRunSize(3) = 3

\* a call with the merge pre-pass has returned
ClaimMergeCall == text_pc = "simple" /\ IsMerge(method) /\ ~IsKeep(method)

\* " ".join(run)
RECURSIVE ClaimJoinSpace(_)
ClaimJoinSpace(run) ==
    IF Len(run) = 1 THEN Head(run)
    ELSE Head(run) \o <<" ">> \o ClaimJoinSpace(Tail(run))

\* merged is units cut into runs of consecutive units, each joined with
\* single spaces; with only_short, a run of several units holds short units
\* only
RECURSIVE ClaimIsPartition(_, _, _)
ClaimIsPartition(units, merged, only_short) ==
    IF merged = <<>> THEN units = <<>>
    ELSE \E k \in 1..Len(units) :
            /\ ClaimJoinSpace(SubSeq(units, 1, k)) = Head(merged)
            /\ only_short /\ k > 1 => \A i \in 1..k : Len(units[i]) < MergeThreshold
            /\ ClaimIsPartition(SubSeq(units, k + 1, Len(units)), Tail(merged), only_short)

\* the units of the lines of the result
ClaimOutUnits == [i \in 1..Len(ClaimOutLines) |-> ClaimUnitOf(i)]

\* C25: the merge pre-pass cuts the units into runs of consecutive units, in
\* order, each labelled unit being the single-space join of one run, and a
\* unit of 40 or more characters is never merged with a neighbouring unit.
C25_MergeOnlyShortUnits ==
    ClaimMergeCall => ClaimIsPartition(ClaimUnits, ClaimOutUnits, TRUE)

----------------------------------------------------------------------------
\* Claims on the two alignment loops

\* C27: for text segments with non-empty text and any speaker turns, the
\* speaker the inline loop of diarize_voice_whisper_pyannote writes for the
\* i-th segment is the speaker assign_speakers_by_time returns for it, the
\* UNKNOWN cases and the ties between turns included.
C27_AlignmentLoopsAgree ==
    /\ align_pc = "assigned" =>
          \A i \in 1..Len(whisper_segments) :
              StripText(whisper_segments[i][3]) # "" =>
                  combined[i][1] = LegacyLine(whisper_segments[i], speaker_segments).best_spk
    /\ align_pc = "legacy" =>
          /\ Len(out_lines) = Len(WrittenSegments)
          /\ \A i \in 1..Len(out_lines) :
                out_lines[i].best_spk = AssignOne(WrittenSegments[i], speaker_segments)[1]

\* one segment and two turns of different speakers that overlap it equally
C27_Witness ==
    /\ align_pc = "assigned"
    /\ Len(whisper_segments) = 1 /\ Len(speaker_segments) = 2
    /\ speaker_segments[1][3] # speaker_segments[2][3]
    /\ ClaimOverlap(whisper_segments[1], speaker_segments[1]) > 0
    /\ ClaimOverlap(whisper_segments[1], speaker_segments[1])
          = ClaimOverlap(whisper_segments[1], speaker_segments[2])
    /\ combined[1][1] = speaker_segments[1][3]

----------------------------------------------------------------------------
\* Claims on the cluster count of diarize_with_embeddings_auto

\* the speaker numbers of the [SPKn] tags in the result
ClaimSpkNumbers ==
    {k \in 1..9 : \E i \in 1..Len(result_lines) :
        /\ Len(result_lines[i]) >= Len(SpkTag(k))
        /\ SubSeq(result_lines[i], 1, Len(SpkTag(k))) = SpkTag(k)}

\* the final cluster count and the number of distinct labels are at most limit
ClaimClustersWithin(limit) ==
    /\ n_clusters <= limit
    /\ Cardinality(ClaimSpkNumbers) <= limit

\* C28 (as stated): for every max_speakers >= 1 the cluster count of the
\* final clustering of diarize_with_embeddings_auto, and the number of
\* distinct SPK labels of its output, exceeds neither max_speakers nor the
\* number of non-empty lines.
C28_ClustersWithinMaxSpeakers ==
    text_pc = "auto" =>
        /\ ClaimClustersWithin(num_speakers)
        /\ ClaimClustersWithin(Len(NonBlank(lines)))

\* C28 (amended): the cluster count and the number of distinct SPK labels
\* exceed neither max(2, max_speakers) nor the number of non-empty lines.
C28_ClustersWithinTwoOrMaxSpeakers ==
    text_pc = "auto" =>
        /\ ClaimClustersWithin(Max(2, num_speakers))
        /\ ClaimClustersWithin(Len(NonBlank(lines)))

\* max_speakers = 1 and two clusters on two non-empty lines
C28_Witness ==
    /\ text_pc = "auto"
    /\ num_speakers = 1
    /\ Len(NonBlank(lines)) >= 2
    /\ n_clusters = 2
    /\ ClaimSpkNumbers = {1, 2}

----------------------------------------------------------------------------
\* Claims on the speaker names panel

\* what a line holds besides its label: the timestamp, the text and the side
\* of the label for a segment line, the rest of the line for a labelled line
ClaimRestOf(seg, m, ln) ==
    IF seg # None /\ seg[1].speaker # <<>>
    THEN [ts |-> seg[1].ts_bracket, txt |-> seg[1].text, side |-> seg[1].speaker_position]
    ELSE IF m.ok THEN [ts |-> <<>>, txt |-> m.rest, side |-> "prefix"]
    ELSE [ts |-> <<>>, txt |-> ln, side |-> "none"]

ClaimLineRest(ln) == ClaimRestOf(parse_segment_line(ln), SpkMatch(strip(ln)), ln)

\* the line after_line is before_line under the mapping: a label that is a
\* key is replaced by its new name and the rest is kept; a line with no label
\* or another label is kept as it is
ClaimLineMapped(spk_before, spk_after, rest_before, rest_after,
                before_line, after_line, mapping) ==
    IF spk_before # None /\ \E k \in 1..Len(mapping) : mapping[k].spk = spk_before[1]
    THEN /\ \E k \in 1..Len(mapping) :
               mapping[k].spk = spk_before[1] /\ spk_after = <<mapping[k].new>>
         /\ rest_after = rest_before
    ELSE after_line = before_line

ClaimLineRenamed(before_line, after_line, mapping) ==
    ClaimLineMapped(LineSpeaker(before_line), LineSpeaker(after_line),
                    ClaimLineRest(before_line), ClaimLineRest(after_line),
                    before_line, after_line, mapping)

ClaimPaneRenamed(before, after, mapping) ==
    LET before_lines == splitlines(before)
        after_lines == splitlines(after)
    IN  /\ Len(after_lines) = Len(before_lines)
        /\ \A i \in 1..Len(before_lines) :
              ClaimLineRenamed(before_lines[i], after_lines[i], mapping)

\* C29: apply renames the speakers as one simultaneous mapping: a line whose
\* label is a key old carries mapping[old] afterwards, a line whose label is
\* no key is unchanged, and the text of every line is untouched, also when a
\* new name is another speaker's old name (a chain or a swap).
C29_RenamesSimultaneously ==
    (names_pc = "applied" /\ applied[1].mapping # <<>>) =>
        \A pane \in {<<applied[1].left, left>>, <<applied[1].right, right>>} :
            ClaimPaneRenamed(pane[1], pane[2], applied[1].mapping)

----------------------------------------------------------------------------
\* Claims on the audio handlers

\* the clicks that ended before the transcription was called
ClaimNotTranscribing == {"no_audio", "no_model", "voice_no_audio", "voice_no_model"}

\* the i-th event of the trace is a click in which model.transcribe was called
ClaimTranscribing(i) ==
    voice_trace[i].event \notin ClaimNotTranscribing \cup {"selected"}

\* the i-th event is a click in which model.transcribe raised
ClaimTranscribeFailed(i) ==
    voice_trace[i].event \in {"transcribe_failed", "voice_transcribe_failed"}

\* C26: a transcription that fails does not invalidate the loaded speech
\* model: after the failure the model and its recorded name are the ones of
\* the selected name, the next click with the same selection transcribes with
\* the cached model without loading, and after a change of the selection the
\* next transcription is preceded by a load.
C26_FailureKeepsModel ==
    /\ (voice_trace # <<>> /\ ClaimTranscribeFailed(Len(voice_trace))) =>
          /\ whisper_model = <<whisper_model_var>>
          /\ current_whisper_model_name = <<whisper_model_var>>
    /\ \A i \in 1..(Len(voice_trace) - 1) :
          /\ (ClaimTranscribeFailed(i) /\ voice_trace[i + 1].event # "selected") =>
                /\ ClaimTranscribing(i + 1)
                /\ voice_trace[i + 1].loads = voice_trace[i].loads
          /\ (voice_trace[i].event = "selected" /\ ClaimTranscribing(i + 1)) =>
                voice_trace[i + 1].loads = voice_trace[i].loads + 1

\* a failed transcription, then a transcription that made no load
C26_Witness ==
    /\ Len(voice_trace) >= 2
    /\ voice_trace[1].event = "transcribe_failed"
    /\ voice_trace[2].event = "transcribed"
    /\ voice_trace[2].loads = 1
    /\ whisper_loads = 1

\* the step is a click on "transcribe and diarize by voice"
ClaimVoiceClick ==
    /\ Len(voice_trace') = Len(voice_trace) + 1
    /\ voice_trace'[Len(voice_trace')].event \in
          {"voice_no_audio", "voice_no_model", "voice_transcribe_failed",
           "voice_no_segments", "voice_no_pipeline", "voice_diarization_failed",
           "voice_no_turns", "voice_done"}

\* C30: in the flow of the transcription with diarization by voice a failure
\* at any stage leaves the transcript pane and the output pane as they were
\* before the click; the panes are written only after the alignment.
C30_FailureLeavesPanes ==
    [][(ClaimVoiceClick /\ voice_trace'[Len(voice_trace')].event # "voice_done")
          => (text' = text /\ output_text' = output_text)]_vars

\* both panes filled by one click, then a click that failed in the diarization
C30_Witness ==
    /\ Len(voice_trace) >= 2
    /\ voice_trace[Len(voice_trace) - 1].event = "voice_done"
    /\ voice_trace[Len(voice_trace)].event = "voice_diarization_failed"
    /\ text # <<>>
    /\ output_text # <<>>

=============================================================================
